---- MODULE Spec2Model ----
(***************************************************************************)
(* Model of the client/worker analysis bridge of wasm-explorer:            *)
(*   src/src/module.tsx   the client transport and the Module handle       *)
(*   src/src/worker.ts    the worker's message handler                     *)
(*   src/unnamed/part_002 the message ids and kinds                        *)
(* The two postMessage channels are FIFO logs (sent, posted) with a read   *)
(* position each (wHead, cHead).                                           *)
(***************************************************************************)
EXTENDS Integers, Sequences, FiniteSets, TLC

VARIABLES
    sent,           \* every message handed to worker.postMessage, in order
    wHead,          \* how many of them the worker's handler has taken
    posted,         \* every message the remote side posted to the client, in order
    cHead,          \* how many of them the client has dispatched to its listeners
    nextMessageId,  \* module.tsx:18
    listeners,      \* ids whose waitForResponse callback is installed on the worker
    promises,       \* id -> the promise waitForResponse(id) returned
    calls,          \* one record per invocation of a client operation
    handles,        \* the client's Module objects, in order of construction
    booted,         \* module.tsx:54 `await loaded` has completed
    workerUp,       \* worker.ts:30-35 has run
    nextModuleId,   \* worker.ts:32
    modules,        \* worker.ts:33, module id -> artifact
    propsItems,     \* TreeView.tsx:509, props.items
    searchText,     \* TreeView.tsx:527, as a sequence of characters
    itemTree,       \* TreeView.tsx:518, node index -> node
    highlightedIndex, \* TreeView.tsx:528
    scores,         \* what fuzzyMatchTreeView returned for each item in the last search
    viewPc,         \* where the TreeView's render stands
    appItem,        \* App.tsx:92, item: the selected item or NoItem
    searchQuery,    \* App.tsx:97
    searchResults,  \* App.tsx:98, the items by index
    showItemPicker, \* App.tsx:96
    appModule,      \* App.tsx:91, module: the promise of Module.load, by the index of the
                    \* load call, 0 before the first
    loadedModule,   \* App.tsx:99, the handle AppInner last rendered with, 0 before the first
    effectsModule,  \* the handle the effects of App.tsx:108-150 last ran for
    bodyState,      \* Toolbar.tsx:165, the promise the viewer holds, by the index of the
                    \* print call; 0 is Promise.resolve([])
    effectFor,      \* the [content, item] the viewer's effect (Toolbar.tsx:169-187) last
                    \* ran for, <<>> if it has not run since the viewer was mounted
    navItems,       \* App.tsx:102, items of the module AppInner renders with
    navItem,        \* App.tsx:92, item, as the effects of App.tsx:208-239 see it
    navOffset,      \* App.tsx:94, offset: a byte offset or NoOffset
    navRendered,    \* the item, offset and items of the last render of AppInner
    navDeps,        \* the item, offset and items the effects last ran with
    timeout,        \* part_003:44, the timer of a debounced function: NoTimer or the
                    \* time left
    timerFresh,     \* part_003:46, fresh in the closure of the timer's callback
    timerArgs,      \* part_003:45, args in the closure of the timer's callback
    invoked,        \* the arguments of every invocation of f, in order
    burst,          \* the arguments of the calls since the timer was last idle, and
                    \* the number of invocations of f before the first of them
    store,          \* main.go:23, key -> entry
    clock,          \* time.Now(), in minutes
    httpResponse    \* the response to the last request of the API client

vars == <<sent, wHead, posted, cHead, nextMessageId, listeners, promises, calls,
          handles, booted, workerUp, nextModuleId, modules,
          propsItems, searchText, itemTree, highlightedIndex, scores, viewPc,
          appItem, searchQuery, searchResults, showItemPicker,
          appModule, loadedModule, effectsModule, bodyState, effectFor,
          navItems, navItem, navOffset, navRendered, navDeps,
          timeout, timerFresh, timerArgs, invoked, burst,
          store, clock, httpResponse>>

clientVars == <<sent, nextMessageId, listeners, promises, calls, handles, booted, cHead>>
workerVars == <<wHead, workerUp, nextModuleId, modules>>
viewVars == <<propsItems, searchText, itemTree, highlightedIndex, scores, viewPc>>
appVars == <<appItem, searchQuery, searchResults, showItemPicker,
             appModule, loadedModule, effectsModule, bodyState, effectFor>>
offsetVars == <<navItems, navItem, navOffset, navRendered, navDeps>>
debounceVars == <<timeout, timerFresh, timerArgs, invoked, burst>>
serverVars == <<store, clock, httpResponse>>
restVars == <<offsetVars, debounceVars, serverVars>>

----------------------------------------------------------------------------
(* Bounds of the model. *)

\* requests the client may send (caps nextMessageId)
MaxMsg == 4
\* invocations of client operations (cache hits send nothing, so they need their own cap)
MaxCalls == 4
\* messages the arbitrary remote of SpecT may post, and the requests and calls of
\* the client facing it
MaxPost == 3
MaxMsgT == 3
MaxCallsT == 3
\* requests an arbitrary client may send to the worker in SpecW
MaxReq == 3

(* Message ids, part_002:12-13. *)
LoadedMessageId == 0
\* the counter started at the reserved id
FirstMessageIdReserved == LoadedMessageId

FirstMessageId == 1

(* Toolbar.tsx:103 and App.tsx:19 *)
MaxBytesForRich == 100 * 1024

(* Artifacts the user may load: a well-formed module, a module that fails  *)
(* validation, and bytes the engine's constructor rejects.                 *)
Sources == {"valid", "invalid", "malformed"}

Rng(s, e) == [start |-> s, end |-> e]

(* Ranges the UI may ask to print. *)
Ranges == {Rng(0, 1), Rng(0, 2)}

NoRange == Rng(0, 0)

----------------------------------------------------------------------------
(* The external engine (component-built/component.js, built from crate/):  *)
(* a deterministic function of the artifact's bytes and the range.         *)

EngineNewThrows(src) == src = "malformed"

EngineValidate(src) == IF src = "invalid" THEN "validateError" ELSE "null"

\* the artifact "large" has one item, too long for the rich printer of the viewer
EngineItems(src) ==
    IF src = "large" THEN <<Rng(0, MaxBytesForRich + 1)>> ELSE <<Rng(0, 2), Rng(0, 1)>>

EngineSource(src) == <<"bytes", src>>

\* the artifact's size in bytes
EngineSize(src) ==
    CASE src = "valid" -> 2
      [] src = "large" -> MaxBytesForRich + 1
      [] OTHER -> 1

\* printing throws for a range that reaches beyond the artifact
EnginePrintThrows(src, range) == range.end > EngineSize(src)

EnginePrintRich(src, range) == <<"rich", src, range.start, range.end>>

EnginePrintPlain(src, range) == <<"plain", src, range.start, range.end>>

----------------------------------------------------------------------------
(* Messages. Every message is a record of the same shape.                  *)

Request(id, kind, moduleId, range, source) ==
    [id |-> id, kind |-> kind, moduleId |-> moduleId, range |-> range, source |-> source]

\* val: items / source / print result; err: validateError or exception payload
Response(id, kind, moduleId, val, err) ==
    [id |-> id, kind |-> kind, moduleId |-> moduleId, val |-> val, err |-> err]

----------------------------------------------------------------------------
(* The client transport, module.tsx:18-54.                                 *)

Pending == [state |-> "pending", by |-> Response(0, "none", 0, <<>>, "null"), n |-> 0]

\* the callback without its test of the id: it acts on every message
CallbackMatchesAnyId(data, id) == TRUE

\* module.tsx:33, the callback's test of the inbound message's id
CallbackMatches(data, id) == data.id = id

\* the callback without its Exception branch: it resolves with every message
IsExceptionNever(data) == FALSE

\* module.tsx:36
IsException(data) == data.kind = "exception"

\* module.tsx:36-41: the callback calls reject or resolve. A promise keeps its first
\* settlement; n counts the calls of reject/resolve, by is the message that settled it.
Settle(p, data) ==
    IF p.state = "pending"
    THEN [state |-> IF IsException(data) THEN "rejected" ELSE "resolved",
          by |-> data, n |-> p.n + 1]
    ELSE [p EXCEPT !.n = p.n + 1]

\* the callback without removeEventListener
AfterRemoveNothing(ls, hit) == ls

\* module.tsx:42: the listeners left installed once the callbacks in `hit` have run
AfterRemove(ls, hit) == ls \ hit

\* module.tsx:30-46
WaitForResponse(id) ==
    /\ listeners' = listeners \cup {id}
    /\ promises' = (id :> Pending) @@ promises

\* the message posted with no listener installed for its id
SendMessageUnheard(message) ==
    /\ listeners' = listeners
    /\ promises' = (message.id :> Pending) @@ promises
    /\ sent' = Append(sent, message)

\* module.tsx:20-28: the listener is installed, then the message is posted
SendMessage(message) ==
    /\ WaitForResponse(message.id)
    /\ sent' = Append(sent, message)

----------------------------------------------------------------------------
(* The Module handle, module.tsx:64-150.                                   *)

DigitChar(d) == <<"0", "1", "2", "3", "4", "5", "6", "7", "8", "9">>[d + 1]

RECURSIVE NumToString(_)
NumToString(n) ==
    IF n < 10 THEN <<DigitChar(n)>>
    ELSE NumToString(n \div 10) \o <<DigitChar(n % 10)>>

\* the key without the range's end
getCacheKeyStartOnly(range) == NumToString(range.start)

\* module.tsx:113-115: `${range.start}-${range.end}`
getCacheKey(range) == NumToString(range.start) \o <<"-">> \o NumToString(range.end)

\* a constructor that registers every handle under the first module id
NewModuleRegistersFirst(id, items, validateError) ==
    [id |-> id, items |-> items, validateError |-> validateError,
     printRichCache |-> <<>>, registered |-> 0, state |-> "live"]

\* module.tsx:70-79: new Module(id, items, validateError), registered with the registry
NewModule(id, items, validateError) ==
    [id |-> id, items |-> items, validateError |-> validateError,
     printRichCache |-> <<>>, registered |-> id, state |-> "live"]

\* hit: the cache answered and nothing was sent; prior: what had become of the earlier
\* calls of the same operation, handle and range when this one was made
Call(op, h, range, src, msg, hit, status, result, prior) ==
    [op |-> op, h |-> h, range |-> range, src |-> src, msg |-> msg, hit |-> hit,
     status |-> status, result |-> result, prior |-> prior]

\* the kinds with printPlain insisting on the kind of printRich
ExpectedKindOfPrintRich(op) ==
    CASE op = "load" -> "construct"
      [] op = "getSource" -> "getSource"
      [] op = "printRich" -> "printRich"
      [] op = "printPlain" -> "printRich"
      [] OTHER -> "any"

\* the response kind each operation insists on (module.tsx:90, 107, 130, 145);
\* the finalizer (module.tsx:56-62) checks none
ExpectedKind(op) ==
    CASE op = "load" -> "construct"
      [] op = "getSource" -> "getSource"
      [] op = "printRich" -> "printRich"
      [] op = "printPlain" -> "printPlain"
      [] OTHER -> "any"

Live(h) == h \in DOMAIN handles /\ handles[h].state = "live"

\* the operations callable before the ready message has arrived
CanCallBeforeReady == Len(calls) < MaxCalls

CanCall == booted /\ Len(calls) < MaxCalls

CanSend == nextMessageId <= MaxMsg

\* the statuses of the earlier calls of the same operation, handle and range
Prior(op, h, range) ==
    {calls[i].status :
        i \in {j \in DOMAIN calls :
                  calls[j].op = op /\ calls[j].h = h /\ calls[j].range = range}}

\* module.tsx:81-89, up to the await
Load(src) ==
    /\ CanCall /\ CanSend
    /\ SendMessage(Request(nextMessageId, "construct", 0, NoRange, src))
    /\ nextMessageId' = nextMessageId + 1
    /\ calls' = Append(calls, Call("load", 0, NoRange, src, nextMessageId, FALSE,
                                   "awaiting", <<>>, {}))
    /\ UNCHANGED <<handles, booted, cHead, posted>>
    /\ UNCHANGED workerVars
    /\ UNCHANGED viewVars

\* module.tsx:101-106, up to the await
GetSource(h) ==
    /\ CanCall /\ CanSend /\ Live(h)
    /\ SendMessage(Request(nextMessageId, "getSource", handles[h].id, NoRange, ""))
    /\ nextMessageId' = nextMessageId + 1
    /\ calls' = Append(calls, Call("getSource", h, NoRange, "", nextMessageId, FALSE,
                                   "awaiting", <<>>, Prior("getSource", h, NoRange)))
    /\ UNCHANGED <<handles, booted, cHead, posted>>
    /\ UNCHANGED workerVars
    /\ UNCHANGED viewVars

\* module.tsx:119-122: the cache answers
PrintRichHit(h, range) ==
    getCacheKey(range) \in DOMAIN handles[h].printRichCache

\* module.tsx:117-129, up to the return of the cached value or the await
PrintRich(h, range) ==
    /\ CanCall /\ Live(h)
    /\ IF PrintRichHit(h, range)
       THEN /\ calls' = Append(calls,
                   Call("printRich", h, range, "", 0, TRUE, "returned",
                        handles[h].printRichCache[getCacheKey(range)],
                        Prior("printRich", h, range)))
            /\ UNCHANGED <<sent, nextMessageId, listeners, promises>>
       ELSE /\ CanSend
            /\ SendMessage(Request(nextMessageId, "printRich", handles[h].id, range, ""))
            /\ nextMessageId' = nextMessageId + 1
            /\ calls' = Append(calls,
                   Call("printRich", h, range, "", nextMessageId, FALSE, "awaiting",
                        <<>>, Prior("printRich", h, range)))
    /\ UNCHANGED <<handles, booted, cHead, posted>>
    /\ UNCHANGED workerVars
    /\ UNCHANGED viewVars

\* printPlain with printRich's cache lookup in front
PrintPlainCached(h, range) ==
    /\ CanCall /\ Live(h)
    /\ IF PrintRichHit(h, range)
       THEN /\ calls' = Append(calls,
                   Call("printPlain", h, range, "", 0, TRUE, "returned",
                        handles[h].printRichCache[getCacheKey(range)],
                        Prior("printPlain", h, range)))
            /\ UNCHANGED <<sent, nextMessageId, listeners, promises>>
       ELSE /\ CanSend
            /\ SendMessage(Request(nextMessageId, "printPlain", handles[h].id, range, ""))
            /\ nextMessageId' = nextMessageId + 1
            /\ calls' = Append(calls,
                   Call("printPlain", h, range, "", nextMessageId, FALSE, "awaiting",
                        <<>>, Prior("printPlain", h, range)))
    /\ UNCHANGED <<handles, booted, cHead, posted>>
    /\ UNCHANGED workerVars
    /\ UNCHANGED viewVars

\* module.tsx:138-144, up to the await: no cache is consulted
PrintPlain(h, range) ==
    /\ CanCall /\ CanSend /\ Live(h)
    /\ SendMessage(Request(nextMessageId, "printPlain", handles[h].id, range, ""))
    /\ nextMessageId' = nextMessageId + 1
    /\ calls' = Append(calls,
           Call("printPlain", h, range, "", nextMessageId, FALSE, "awaiting",
                <<>>, Prior("printPlain", h, range)))
    /\ UNCHANGED <<handles, booted, cHead, posted>>
    /\ UNCHANGED workerVars
    /\ UNCHANGED viewVars

\* a printRich call that awaits its response refers to `this` in its continuation
\* (module.tsx:134), so its handle is reachable
HeldByCall(h) ==
    \E i \in DOMAIN calls :
        calls[i].op = "printRich" /\ calls[i].h = h /\ calls[i].status = "awaiting"

\* the last reference to a Module is dropped (the caller's choice)
Drop(h) ==
    /\ Live(h) /\ ~HeldByCall(h)
    /\ handles' = [handles EXCEPT ![h].state = "unreachable"]
    /\ UNCHANGED <<sent, nextMessageId, listeners, promises, calls, booted, cHead, posted>>
    /\ UNCHANGED workerVars
    /\ UNCHANGED viewVars

\* a registry whose callback may run for any handle, reachable or already finalized
CollectedOrNot(h) == h \in DOMAIN handles

\* module.tsx:56: the registry runs its callback for a target that has been collected,
\* once
Collected(h) == h \in DOMAIN handles /\ handles[h].state = "unreachable"

\* module.tsx:56-62: the registry's callback, called with the value registered at
\* module.tsx:78, up to the await
Finalize(h) ==
    /\ Collected(h)
    /\ Len(calls) < MaxCalls /\ CanSend
    /\ SendMessage(Request(nextMessageId, "destroy", handles[h].registered, NoRange, ""))
    /\ nextMessageId' = nextMessageId + 1
    /\ calls' = Append(calls, Call("destroy", h, NoRange, "", nextMessageId, FALSE,
                                   "awaiting", <<>>, {}))
    /\ handles' = [handles EXCEPT ![h].state = "finalized"]
    /\ UNCHANGED <<booted, cHead, posted>>
    /\ UNCHANGED workerVars
    /\ UNCHANGED viewVars

----------------------------------------------------------------------------
(* A message event on the client: every installed callback runs            *)
(* (module.tsx:32-43), then the continuations of the calls whose promise   *)
(* it settled (module.tsx:54, 90-98, 107-110, 130-135, 145-148).           *)

\* the installed callbacks that act on data
Hit(data) == {id \in listeners : CallbackMatches(data, id)}

\* the calls whose await is resumed by data
Resumed(data) ==
    {i \in DOMAIN calls :
        /\ calls[i].status = "awaiting"
        /\ calls[i].msg \in Hit(data)
        /\ promises[calls[i].msg].state = "pending"}

\* the call's outcome once its await has resumed with data
Continue(i, data) ==
    LET c == calls[i] IN
    IF IsException(data)
    THEN [c EXCEPT !.status = "threw", !.result = <<data.err>>]
    ELSE IF ExpectedKind(c.op) # "any" /\ data.kind # ExpectedKind(c.op)
    THEN [c EXCEPT !.status = "threw", !.result = <<"unexpected response kind">>]
    ELSE IF c.op = "load"
    THEN [c EXCEPT !.status = "returned", !.h = i, !.result = <<i>>]
    ELSE [c EXCEPT !.status = "returned", !.result = data.val]

\* the call returns normally when resumed with data
Returns(i, data) ==
    /\ ~IsException(data)
    /\ ExpectedKind(calls[i].op) = "any" \/ data.kind = ExpectedKind(calls[i].op)

\* the store moved in front of the checks: failures are stored too
CacheAfterEvenOnFailure(h, data) ==
    LET keys == {getCacheKey(calls[i].range) :
                    i \in {j \in Resumed(data) :
                              calls[j].op = "printRich" /\ calls[j].h = h}}
        old == handles[h].printRichCache
    IN [k \in DOMAIN old \cup keys |-> IF k \in keys THEN data.val ELSE old[k]]

\* module.tsx:134: the cache of handle h after the resumed printRich calls have stored
CacheAfter(h, data) ==
    LET keys == {getCacheKey(calls[i].range) :
                    i \in {j \in Resumed(data) :
                              /\ calls[j].op = "printRich" /\ calls[j].h = h
                              /\ Returns(j, data)}}
        old == handles[h].printRichCache
    IN [k \in DOMAIN old \cup keys |-> IF k \in keys THEN data.val ELSE old[k]]

\* module.tsx:94-98: the handles after the resumed load calls have constructed theirs;
\* a handle is named by the index of the load call that made it
HandlesAfter(data) ==
    LET made == {i \in Resumed(data) : calls[i].op = "load" /\ Returns(i, data)}
    IN [h \in DOMAIN handles \cup made |->
           IF h \in made
           THEN NewModule(data.moduleId, data.val, data.err)
           ELSE [handles[h] EXCEPT !.printRichCache = CacheAfter(h, data)]]

ClientReceive ==
    /\ cHead < Len(posted)
    /\ LET data == posted[cHead + 1] IN
        /\ cHead' = cHead + 1
        /\ promises' = [id \in DOMAIN promises |->
                           IF id \in Hit(data) THEN Settle(promises[id], data)
                           ELSE promises[id]]
        /\ listeners' = AfterRemove(listeners, Hit(data))
        /\ calls' = [i \in DOMAIN calls |->
                        IF i \in Resumed(data) THEN Continue(i, data) ELSE calls[i]]
        /\ handles' = HandlesAfter(data)
        /\ booted' = (booted \/ (/\ LoadedMessageId \in Hit(data)
                                 /\ promises[LoadedMessageId].state = "pending"
                                 /\ ~IsException(data)))
    /\ UNCHANGED <<sent, nextMessageId, posted>>
    /\ UNCHANGED workerVars
    /\ UNCHANGED viewVars
    /\ UNCHANGED <<appVars, restVars>>

----------------------------------------------------------------------------
(* The worker, worker.ts:28-105.                                           *)

\* worker.ts:59, 72, 82: modules[data.moduleId] is undefined, so the method call
\* on it throws a TypeError
ModuleAbsent(ms, id) == id \notin DOMAIN ms

\* the delete left out
DeleteModuleNothing(ms, id) == ms

\* a delete that empties the table
DeleteModuleAll(ms, id) == [k \in {} |-> ms[k]]

\* worker.ts:54: delete modules[data.moduleId]
DeleteModule(ms, id) == [k \in DOMAIN ms \ {id} |-> ms[k]]

\* the store made only once validation has succeeded
StoreModuleIfValid(ms, id, src) ==
    IF EngineValidate(src) # "null" THEN ms ELSE (id :> src) @@ ms

\* worker.ts:42: modules[moduleId] = result
StoreModule(ms, id, src) == (id :> src) @@ ms

\* worker.ts:49
ConstructItems(src) == IF EngineValidate(src) # "null" THEN <<>> ELSE EngineItems(src)

\* the catch clause's reply without the request's id
ExceptionReplyNoId(data, err) == Response(LoadedMessageId, "exception", 0, <<>>, err)

\* worker.ts:97-103: the catch clause's reply
ExceptionReply(data, err) == Response(data.id, "exception", 0, <<>>, err)

\* worker.ts:37-104: the message the handler posts for data, with table ms and
\* next module id next
HandlerReply(data, ms, next) ==
    CASE data.kind = "construct" ->
            IF EngineNewThrows(data.source)
            THEN ExceptionReply(data, "EngineError")
            ELSE Response(data.id, "construct", next, ConstructItems(data.source),
                          EngineValidate(data.source))
      [] data.kind = "destroy" ->
            Response(data.id, "destroy", 0, <<>>, "null")
      [] data.kind = "getSource" ->
            IF ModuleAbsent(ms, data.moduleId)
            THEN ExceptionReply(data, "TypeError")
            ELSE Response(data.id, "getSource", 0, EngineSource(ms[data.moduleId]), "null")
      [] data.kind = "printRich" ->
            IF ModuleAbsent(ms, data.moduleId)
            THEN ExceptionReply(data, "TypeError")
            ELSE IF EnginePrintThrows(ms[data.moduleId], data.range)
            THEN ExceptionReply(data, "EngineError")
            ELSE Response(data.id, "printRich", 0,
                          EnginePrintRich(ms[data.moduleId], data.range), "null")
      [] data.kind = "printPlain" ->
            IF ModuleAbsent(ms, data.moduleId)
            THEN ExceptionReply(data, "TypeError")
            ELSE IF EnginePrintThrows(ms[data.moduleId], data.range)
            THEN ExceptionReply(data, "EngineError")
            ELSE Response(data.id, "printPlain", 0,
                          EnginePrintPlain(ms[data.moduleId], data.range), "null")

\* the table with the store made before the engine's constructor is called
ModulesAfterStoreFirst(data, ms, next) ==
    CASE data.kind = "construct" -> StoreModule(ms, next, data.source)
      [] data.kind = "destroy" -> DeleteModule(ms, data.moduleId)
      [] OTHER -> ms

\* worker.ts:41-42, 54: the table after the handler has run on data
ModulesAfter(data, ms, next) ==
    CASE data.kind = "construct" /\ ~EngineNewThrows(data.source) ->
            StoreModule(ms, next, data.source)
      [] data.kind = "destroy" -> DeleteModule(ms, data.moduleId)
      [] OTHER -> ms

\* an allocator that hands a destroyed module's id out again
NextModuleIdReuse(data, next) ==
    IF data.kind = "construct" THEN next + 1
    ELSE IF data.kind = "destroy" THEN data.moduleId ELSE next

\* worker.ts:40: let moduleId = nextModuleId++
NextModuleIdAfter(data, next) == IF data.kind = "construct" THEN next + 1 ELSE next

\* a worker script that installs its handler without posting Loaded
WorkerStartSilent ==
    /\ ~workerUp
    /\ workerUp' = TRUE
    /\ UNCHANGED <<wHead, nextModuleId, modules, posted>>
    /\ UNCHANGED clientVars
    /\ UNCHANGED viewVars
    /\ UNCHANGED <<appVars, restVars>>

\* worker.ts:28-35: the worker script runs: it posts Loaded and installs its handler
WorkerStart ==
    /\ ~workerUp
    /\ workerUp' = TRUE
    /\ posted' = Append(posted, Response(LoadedMessageId, "loaded", 0, <<>>, "null"))
    /\ UNCHANGED <<wHead, nextModuleId, modules>>
    /\ UNCHANGED clientVars
    /\ UNCHANGED viewVars
    /\ UNCHANGED <<appVars, restVars>>

\* the handler without its try/catch: a throw posts nothing
WorkerHandleUncaught ==
    /\ workerUp
    /\ wHead < Len(sent)
    /\ LET data == sent[wHead + 1]
           reply == HandlerReply(data, modules, nextModuleId) IN
        /\ wHead' = wHead + 1
        /\ posted' = IF reply.kind = "exception" THEN posted ELSE Append(posted, reply)
        /\ modules' = ModulesAfter(data, modules, nextModuleId)
        /\ nextModuleId' = NextModuleIdAfter(data, nextModuleId)
    /\ UNCHANGED workerUp
    /\ UNCHANGED clientVars
    /\ UNCHANGED viewVars
    /\ UNCHANGED <<appVars, restVars>>

\* a handler whose reply overtakes the reply to the request before
WorkerHandleOvertaking ==
    /\ workerUp
    /\ wHead < Len(sent)
    /\ LET data == sent[wHead + 1]
           reply == HandlerReply(data, modules, nextModuleId) IN
        /\ wHead' = wHead + 1
        /\ posted' = IF wHead = 0 THEN Append(posted, reply)
                      ELSE SubSeq(posted, 1, Len(posted) - 1)
                             \o <<reply, posted[Len(posted)]>>
        /\ modules' = ModulesAfter(data, modules, nextModuleId)
        /\ nextModuleId' = NextModuleIdAfter(data, nextModuleId)
    /\ UNCHANGED workerUp
    /\ UNCHANGED clientVars
    /\ UNCHANGED viewVars
    /\ UNCHANGED <<appVars, restVars>>

\* worker.ts:35-105: the handler runs on the next message, to completion
WorkerHandle ==
    /\ workerUp
    /\ wHead < Len(sent)
    /\ LET data == sent[wHead + 1] IN
        /\ wHead' = wHead + 1
        /\ posted' = Append(posted, HandlerReply(data, modules, nextModuleId))
        /\ modules' = ModulesAfter(data, modules, nextModuleId)
        /\ nextModuleId' = NextModuleIdAfter(data, nextModuleId)
    /\ UNCHANGED workerUp
    /\ UNCHANGED clientVars
    /\ UNCHANGED viewVars
    /\ UNCHANGED <<appVars, restVars>>

\* no TreeView is on the page
ViewUnmounted ==
    /\ propsItems = <<>>
    /\ searchText = <<>>
    /\ itemTree = <<>>
    /\ highlightedIndex = -1
    /\ scores = <<>>
    /\ viewPc = "unmounted"

----------------------------------------------------------------------------
(* The composed system: the worker has been launched (module.tsx:48) and   *)
(* the listener for the ready message is installed (module.tsx:52).        *)

\* module.tsx:18, 48-52 and worker.ts before it has run
BridgeInit ==
    /\ sent = <<>>
    /\ wHead = 0
    /\ posted = <<>>
    /\ cHead = 0
    /\ nextMessageId = FirstMessageId
    /\ listeners = {LoadedMessageId}
    /\ promises = (LoadedMessageId :> Pending)
    /\ calls = <<>>
    /\ handles = <<>>
    /\ booted = FALSE
    /\ workerUp = FALSE
    /\ nextModuleId = 0
    /\ modules = <<>>

\* an Item of the application: the index-th item of the handle it was taken from
ItemRef(h, index) == [module |-> h, index |-> index]

\* App.tsx:92: no item is selected
NoItem == ItemRef(0, -1)

\* App.tsx:92: item is null
NoNavItem == [index |-> -1, range |-> <<>>]

\* App.tsx:94: offset is null
NoOffset == -1

\* part_003:44: timeout is null
NoTimer == -1

\* App.tsx:91-98, Toolbar.tsx:165-167: the state AppInner and the viewer start with;
\* module.tsx awaits the ready message before App.tsx:20 is evaluated
AppInit ==
    /\ appItem = NoItem
    /\ appModule = 0
    /\ loadedModule = 0
    /\ effectsModule = 0
    /\ bodyState = 0
    /\ effectFor = <<>>
    /\ searchQuery = <<>>
    /\ searchResults = <<>>
    /\ showItemPicker = FALSE

\* App.tsx:92-94, 102: no item and no offset are selected, nothing is rendered
OffsetInit ==
    /\ navItems = <<>>
    /\ navItem = NoNavItem
    /\ navOffset = NoOffset
    /\ navRendered = <<>>
    /\ navDeps = <<>>

\* part_003:43-44: debounce(f, ms) has returned, no call is made yet
DebounceInit ==
    /\ timeout = NoTimer
    /\ timerFresh = TRUE
    /\ timerArgs = <<>>
    /\ invoked = <<>>
    /\ burst = [before |-> 0, args |-> <<>>]

\* main.go:23-24: the server has started with an empty store
StoreInit ==
    /\ store = [k \in {} |-> <<>>]
    /\ clock = 0
    /\ httpResponse = <<>>

RestInit == OffsetInit /\ DebounceInit /\ StoreInit

Init ==
    /\ BridgeInit
    /\ ViewUnmounted
    /\ AppInit
    /\ RestInit

ClientCall ==
    \/ \E src \in Sources : Load(src)
    \/ \E h \in DOMAIN handles : GetSource(h)
    \/ \E h \in DOMAIN handles, range \in Ranges : PrintRich(h, range)
    \/ \E h \in DOMAIN handles, range \in Ranges : PrintPlain(h, range)
    \/ \E h \in DOMAIN handles : Drop(h)
    \/ \E h \in DOMAIN handles : Finalize(h)

Next ==
    \/ ClientCall /\ UNCHANGED <<appVars, restVars>>
    \/ ClientReceive
    \/ WorkerStart
    \/ WorkerHandle

Spec == Init /\ [][Next]_vars

\* the same operations, on an artifact the engine constructs and one it rejects, and
\* on one range
ClientCallLive ==
    \/ \E src \in {"valid", "malformed"} : Load(src)
    \/ \E h \in DOMAIN handles : GetSource(h)
    \/ \E h \in DOMAIN handles : PrintRich(h, Rng(0, 2))
    \/ \E h \in DOMAIN handles : PrintPlain(h, Rng(0, 2))
    \/ \E h \in DOMAIN handles : Drop(h)
    \/ \E h \in DOMAIN handles : Finalize(h)

NextLive ==
    \/ ClientCallLive /\ UNCHANGED <<appVars, restVars>>
    \/ ClientReceive
    \/ WorkerStart
    \/ WorkerHandle

\* the composed system over a reliable channel and under fair scheduling: a message
\* posted is delivered, the worker script runs, and the handler runs on a message
\* that has arrived
SpecLive ==
    /\ Init /\ [][NextLive]_vars
    /\ WF_vars(ClientReceive)
    /\ WF_vars(WorkerStart)
    /\ WF_vars(WorkerHandle)

----------------------------------------------------------------------------
(* The client against an arbitrary remote: any message, with any id, of    *)
(* any kind, in any order and any number of times.                         *)

ResponseKinds == {"loaded", "exception", "construct", "printRich"}

\* the payload a message of each kind carries
AnyResponse(id, kind) ==
    CASE kind = "construct" -> Response(id, kind, 0, EngineItems("valid"), "null")
      [] kind = "exception" -> Response(id, kind, 0, <<>>, "EngineError")
      [] kind = "printRich" -> Response(id, kind, 0, <<"rich", id>>, "null")
      [] OTHER -> Response(id, kind, 0, <<>>, "null")

RemotePost(id, kind) ==
    /\ Len(posted) < MaxPost
    /\ posted' = Append(posted, AnyResponse(id, kind))
    /\ UNCHANGED clientVars
    /\ UNCHANGED workerVars
    /\ UNCHANGED viewVars
    /\ UNCHANGED <<appVars, restVars>>

\* the same operations, on one artifact and one range
ClientCallT ==
    \/ Load("valid")
    \/ \E h \in DOMAIN handles : PrintRich(h, Rng(0, 1))

NextT ==
    \/ Len(calls) < MaxCallsT /\ nextMessageId <= MaxMsgT /\ ClientCallT /\ UNCHANGED <<appVars, restVars>>
    \/ ClientReceive
    \/ \E id \in 0..nextMessageId, kind \in ResponseKinds : RemotePost(id, kind)

SpecT == Init /\ [][NextT]_vars

----------------------------------------------------------------------------
(* The worker against an arbitrary client: any request, for any module id, *)
(* in any order.                                                           *)

RequestKinds == {"construct", "destroy", "getSource", "printRich", "printPlain"}

AnyRequest(kind, moduleId, range, src) ==
    /\ Len(sent) < MaxReq
    /\ kind = "construct" => moduleId = 0 /\ range = NoRange
    /\ kind # "construct" => src = ""
    /\ kind \in {"destroy", "getSource"} => range = NoRange
    /\ kind \in {"printRich", "printPlain"} => range # NoRange
    /\ sent' = Append(sent, Request(nextMessageId, kind, moduleId, range, src))
    /\ nextMessageId' = nextMessageId + 1
    /\ UNCHANGED <<listeners, promises, calls, handles, booted, cHead, posted>>
    /\ UNCHANGED workerVars
    /\ UNCHANGED viewVars
    /\ UNCHANGED <<appVars, restVars>>

NextW ==
    \/ WorkerStart
    \/ WorkerHandle
    \/ \E kind \in RequestKinds, moduleId \in 0..1,
          range \in {NoRange, Rng(0, 1), Rng(0, 2)}, src \in Sources \cup {""} :
            AnyRequest(kind, moduleId, range, src)

SpecW == Init /\ [][NextW]_vars

----------------------------------------------------------------------------
(* Claims about the transport.                                             *)

Settled(id) == id \in DOMAIN promises /\ promises[id].state # "pending"

\* C1: whatever is posted to the client and in whatever order, a request's promise is
\* settled only by a message carrying the request's own id, resolve/reject is called
\* at most once for it, and once settled it never changes again (a second message
\* with the same id has no effect).
C1_SettledByOwnResponseOnce ==
    [][\A id \in DOMAIN promises' :
          /\ promises'[id].state # "pending" => promises'[id].by.id = id
          /\ promises'[id].n <= 1
          /\ Settled(id) => promises'[id] = promises[id]]_vars

\* a request's promise is settled, and a second message with the same id has been
\* dispatched after the one that settled it
C1_Witness ==
    \E id \in DOMAIN promises, j \in 1..cHead, k \in 1..cHead :
        /\ id >= FirstMessageId /\ Settled(id)
        /\ j < k /\ posted[j].id = id /\ posted[k].id = id
        /\ promises[id].by = posted[j]

\* C2: when an Exception message is dispatched, the promise of the request whose id
\* it carries is rejected with its payload and the call awaiting it throws that
\* payload; every other promise and every other call is left as it was.
C2_ExceptionRejectsOnlyItsRequest ==
    [][(cHead' = cHead + 1 /\ posted[cHead + 1].kind = "exception") =>
        LET data == posted[cHead + 1] IN
        /\ \A id \in DOMAIN promises : id # data.id => promises'[id] = promises[id]
        /\ \A i \in DOMAIN calls : calls[i].msg # data.id => calls'[i] = calls[i]
        /\ (data.id \in DOMAIN promises /\ promises[data.id].state = "pending") =>
              /\ promises'[data.id].state = "rejected"
              /\ promises'[data.id].by.err = data.err
        /\ \A i \in DOMAIN calls :
              (calls[i].msg = data.id /\ calls[i].status = "awaiting") =>
                  /\ calls'[i].status = "threw"
                  /\ calls'[i].result = <<data.err>>]_vars

\* request a was rejected by an Exception while the earlier request b was in flight,
\* and b was resolved by its own response afterwards
C2_Witness ==
    \E a \in DOMAIN promises, b \in DOMAIN promises, k \in 1..cHead, j \in 1..cHead :
        /\ FirstMessageId <= b /\ b < a /\ k < j
        /\ promises[a].state = "rejected" /\ promises[a].by = posted[k]
        /\ promises[b].state = "resolved" /\ promises[b].by = posted[j]
        /\ posted[k].kind = "exception" /\ posted[j].id = b

----------------------------------------------------------------------------
(* Claims about the handle's cache.                                        *)

\* the printRich calls on handle h for range that sent a PrintRich message and did
\* not fail
RoundTrips(h, range) ==
    {i \in DOMAIN calls :
        /\ calls[i].op = "printRich" /\ calls[i].h = h /\ calls[i].range = range
        /\ ~calls[i].hit /\ calls[i].status # "threw"}

\* C3: printRich calls with the same range on the same handle cause at most one
\* PrintRich message to be sent, also when a call is made before the response to an
\* earlier one has arrived (calls that failed aside, which may be retried).
C3_AtMostOneRoundTripPerRange ==
    \A h \in DOMAIN handles, range \in Ranges : Cardinality(RoundTrips(h, range)) <= 1

\* C4: a printRich made after a printRich with the same start and end has returned
\* on that handle is answered by the cache: it sends nothing, and it returns what
\* every returned printRich for that range on that handle returned.
C4_CompletedPrintRichIsCached ==
    \A j \in DOMAIN calls :
        (calls[j].op = "printRich" /\ "returned" \in calls[j].prior) =>
            /\ calls[j].hit /\ calls[j].status = "returned"
            /\ \A k \in DOMAIN sent : sent[k].id # calls[j].msg
            /\ \A i \in DOMAIN calls :
                  (/\ calls[i].op = "printRich" /\ calls[i].h = calls[j].h
                   /\ calls[i].range = calls[j].range /\ calls[i].status = "returned")
                  => calls[j].result = calls[i].result

\* a printRich was made after one for the same range had returned from the worker, after
\* a printRich for the other range with the same start had been cached as well
C4_Witness ==
    \E i \in DOMAIN calls, j \in DOMAIN calls, k \in DOMAIN calls :
        /\ i < j /\ calls[i].op = "printRich" /\ calls[j].op = "printRich"
        /\ calls[i].h = calls[j].h /\ calls[i].range = calls[j].range
        /\ ~calls[i].hit /\ calls[i].status = "returned"
        /\ "returned" \in calls[j].prior /\ calls[j].hit
        /\ calls[k].op = "printRich" /\ calls[k].h = calls[j].h
        /\ calls[k].range # calls[j].range /\ calls[k].status = "returned"

\* C5 as stated: a printPlain made after a printPlain with the same range has
\* returned on that handle sends no PrintPlain message.
C5_PrintPlainAnsweredByCache ==
    \A j \in DOMAIN calls :
        (calls[j].op = "printPlain" /\ "returned" \in calls[j].prior) =>
            /\ calls[j].hit
            /\ \A k \in DOMAIN sent : sent[k].id # calls[j].msg

\* C5 as the code has it: printPlain consults no cache. Every printPlain call sends
\* its own PrintPlain message for its handle's module id and its range, whatever was
\* printed before.
C5_PrintPlainAlwaysSends ==
    \A j \in DOMAIN calls :
        calls[j].op = "printPlain" =>
            /\ ~calls[j].hit
            /\ \E k \in DOMAIN sent :
                  /\ sent[k].id = calls[j].msg /\ sent[k].kind = "printPlain"
                  /\ sent[k].moduleId = handles[calls[j].h].id
                  /\ sent[k].range = calls[j].range
            /\ \A i \in DOMAIN calls : calls[i].msg = calls[j].msg => i = j

\* a printPlain made after a printPlain and a printRich of the same range had
\* returned on the handle, and it sent a message
C5_Witness ==
    \E j \in DOMAIN calls :
        /\ calls[j].op = "printPlain" /\ "returned" \in calls[j].prior /\ ~calls[j].hit
        /\ getCacheKey(calls[j].range) \in DOMAIN handles[calls[j].h].printRichCache

----------------------------------------------------------------------------
(* Claims about the worker's handler.                                      *)

\* the handler takes its next message in this step
Handles == wHead' = wHead + 1

\* the one message the handler posts in this step
Posts(kind, id) ==
    /\ Len(posted') = Len(posted) + 1
    /\ SubSeq(posted', 1, Len(posted)) = posted
    /\ posted'[Len(posted')].kind = kind
    /\ posted'[Len(posted')].id = id

\* C7: a Destroy request is always answered by a Destroy message with its id, never
\* by an Exception; afterwards the table has no entry for the module id and every
\* other entry is as before, so a Destroy for an id that is absent (destroyed before,
\* or never present) leaves the table as it was.
C7_DestroyIdempotent ==
    [][(Handles /\ sent[wHead + 1].kind = "destroy") =>
        LET data == sent[wHead + 1] IN
        /\ Posts("destroy", data.id)
        /\ DOMAIN modules' = DOMAIN modules \ {data.moduleId}
        /\ \A m \in DOMAIN modules' : modules'[m] = modules[m]
        /\ data.moduleId \notin DOMAIN modules => modules' = modules]_vars

\* Construct has stored module m, and two Destroy requests for m have been handled
\* and answered by Destroy
C7_Witness ==
    \E c \in 1..wHead, a \in 1..wHead, b \in 1..wHead :
        /\ c < a /\ a < b
        /\ sent[c].kind = "construct" /\ posted[c + 1].kind = "construct"
        /\ sent[a].kind = "destroy" /\ sent[a].moduleId = posted[c + 1].moduleId
        /\ sent[b].kind = "destroy" /\ sent[b].moduleId = sent[a].moduleId
        /\ posted[a + 1].kind = "destroy" /\ posted[b + 1].kind = "destroy"

LookupKinds == {"getSource", "printRich", "printPlain"}

\* C8: a GetSource, PrintRich or PrintPlain request for a module id absent from the
\* table is answered by an Exception with the request's id and changes nothing in
\* the worker, which keeps handling; whatever came before, such a request for a
\* module id that is present (and a range the engine prints) is answered by a
\* message of the request's kind.
C8_UnknownHandleIsException ==
    [][(Handles /\ sent[wHead + 1].kind \in LookupKinds) =>
        LET data == sent[wHead + 1] IN
        IF data.moduleId \notin DOMAIN modules
        THEN /\ Posts("exception", data.id)
             /\ UNCHANGED <<modules, nextModuleId, workerUp>>
        ELSE (data.kind = "getSource" \/ ~EnginePrintThrows(modules[data.moduleId], data.range))
             => Posts(data.kind, data.id)]_vars

\* a request for an absent module id was answered by an Exception and the next
\* request, for a module that is present, by a message of its own kind
C8_Witness ==
    \E c \in 1..wHead, a \in 1..wHead :
        /\ c < a /\ a + 1 <= wHead
        /\ sent[c].kind = "construct" /\ posted[c + 1].kind = "construct"
        /\ sent[a].kind = "printRich" /\ sent[a].moduleId # posted[c + 1].moduleId
        /\ posted[a + 1].kind = "exception" /\ posted[a + 1].id = sent[a].id
        /\ posted[a + 1].err = "TypeError"
        /\ sent[a + 1].kind \in LookupKinds /\ sent[a + 1].moduleId = posted[c + 1].moduleId
        /\ posted[a + 2].kind = sent[a + 1].kind /\ posted[a + 2].id = sent[a + 1].id

\* the handler's body throws on data: the engine's constructor or printer throws, or
\* the module id is absent
Throws(data) ==
    CASE data.kind = "construct" -> EngineNewThrows(data.source)
      [] data.kind = "destroy" -> FALSE
      [] data.kind = "getSource" -> data.moduleId \notin DOMAIN modules
      [] OTHER -> \/ data.moduleId \notin DOMAIN modules
                  \/ EnginePrintThrows(modules[data.moduleId], data.range)

\* C9: for every request it takes the handler posts exactly one message, with the
\* request's id; its kind is Exception when the handler's body throws and the
\* request's kind otherwise. Nothing else posts to the client once the worker runs.
C9_OneReplyPerRequest ==
    [][/\ Handles =>
            Posts(IF Throws(sent[wHead + 1]) THEN "exception" ELSE sent[wHead + 1].kind,
                  sent[wHead + 1].id)
       /\ (workerUp /\ ~Handles) => posted' = posted]_vars

\* three requests have been handled: a Construct and a print answered in kind, and a
\* print on which the engine threw answered by an Exception
C9_Witness ==
    /\ wHead = 3 /\ Len(posted) = 4
    /\ \E c \in 1..3, a \in 1..3, b \in 1..3 :
        /\ sent[c].kind = "construct" /\ posted[c + 1].kind = "construct"
        /\ sent[a].kind \in {"printRich", "printPlain"} /\ posted[a + 1].kind = sent[a].kind
        /\ sent[b].kind \in {"printRich", "printPlain"} /\ posted[b + 1].kind = "exception"
        /\ posted[b + 1].err = "EngineError"
        /\ \A k \in 1..3 : posted[k + 1].id = sent[k].id

----------------------------------------------------------------------------
(* Claims about loading.                                                   *)

\* the source loaded into handle h (h is the index of the load call that made it)
SourceOf(h) == calls[h].src

\* C10: a Construct request whose bytes the engine constructs is answered by a
\* Construct message: with items = [] and the validation error when validation
\* fails, with the engine's items and a null error when it succeeds. load returns
\* (never throws) a handle carrying those items and that error, the worker holds
\* the artifact under the handle's id until the handle is finalized, and getSource
\* on the handle returns the artifact's bytes.
C10_InvalidModuleStillLoads ==
    /\ \A k \in 1..wHead :
          (sent[k].kind = "construct" /\ ~EngineNewThrows(sent[k].source)) =>
              /\ posted[k + 1].kind = "construct" /\ posted[k + 1].id = sent[k].id
              /\ posted[k + 1].err = EngineValidate(sent[k].source)
              /\ posted[k + 1].val = IF EngineValidate(sent[k].source) = "null"
                                     THEN EngineItems(sent[k].source) ELSE <<>>
    /\ \A i \in DOMAIN calls :
          (calls[i].op = "load" /\ ~EngineNewThrows(calls[i].src)) =>
              /\ calls[i].status # "threw"
              /\ calls[i].status = "returned" =>
                    /\ i \in DOMAIN handles
                    /\ handles[i].validateError = EngineValidate(calls[i].src)
                    /\ handles[i].items = IF EngineValidate(calls[i].src) = "null"
                                          THEN EngineItems(calls[i].src) ELSE <<>>
                    /\ handles[i].state # "finalized" =>
                          /\ handles[i].id \in DOMAIN modules
                          /\ modules[handles[i].id] = calls[i].src
    /\ \A j \in DOMAIN calls :
          calls[j].op = "getSource" =>
              /\ calls[j].status # "threw"
              /\ calls[j].status = "returned" =>
                    calls[j].result = EngineSource(SourceOf(calls[j].h))

\* load of an artifact that fails validation has returned a handle carrying the
\* error and no items, and getSource on that handle has returned its bytes
C10_Witness ==
    \E i \in DOMAIN calls, j \in DOMAIN calls :
        /\ calls[i].op = "load" /\ calls[i].status = "returned"
        /\ EngineValidate(calls[i].src) # "null"
        /\ handles[i].validateError = EngineValidate(calls[i].src)
        /\ handles[i].items = <<>>
        /\ calls[j].op = "getSource" /\ calls[j].h = i /\ calls[j].status = "returned"
        /\ calls[j].result = EngineSource(calls[i].src)

----------------------------------------------------------------------------
(* Claims about the identifiers of the two sides.                          *)

\* the positions in posted of the Construct responses
ConstructReplies == {k \in DOMAIN posted : posted[k].kind = "construct"}

\* C11: the module ids the worker returns in successive Construct responses are
\* strictly increasing from 0 and below the counter, whatever Destroy requests and
\* failed Constructs come between them, and an id in the table holds the artifact
\* of the Construct that returned it.
C11_ModuleIdsNeverReused ==
    /\ \A a \in ConstructReplies : posted[a].moduleId >= 0 /\ posted[a].moduleId < nextModuleId
    /\ \A a \in ConstructReplies, b \in ConstructReplies :
        a < b => posted[a].moduleId < posted[b].moduleId
    /\ \A a \in ConstructReplies :
        posted[a].moduleId \in DOMAIN modules =>
            modules[posted[a].moduleId] = sent[a - 1].source

\* two Constructs have returned ids, and between them the worker handled a Destroy
\* of the first id or a Construct that failed
C11_Witness ==
    \E a \in ConstructReplies, b \in ConstructReplies, m \in 1..wHead :
        /\ a - 1 < m /\ m < b - 1
        /\ \/ sent[m].kind = "destroy" /\ sent[m].moduleId = posted[a].moduleId
           \/ sent[m].kind = "construct" /\ posted[m + 1].kind = "exception"

\* C12: the k-th request the client sends carries id FirstMessageId + k - 1, so the
\* ids of the requests are strictly increasing from 1 and never repeat, none is the
\* reserved id 0, the Destroy requests of the finalization callback included, and the
\* counter is above every id in use.
C12_RequestIdsIncreaseFromOne ==
    /\ \A k \in DOMAIN sent : sent[k].id = FirstMessageId + k - 1
    /\ \A k \in DOMAIN sent : sent[k].id # LoadedMessageId /\ sent[k].id < nextMessageId
    /\ \A a \in DOMAIN sent, b \in DOMAIN sent : a < b => sent[a].id < sent[b].id

\* three requests have been sent, one of them by the finalization callback and one
\* after it
C12_Witness ==
    \E k \in DOMAIN sent :
        /\ sent[k].kind = "destroy"
        /\ k > 1 /\ k < Len(sent)

\* the ready messages among the posted ones
ReadyPosts == {k \in DOMAIN posted : posted[k].kind = "loaded" \/ posted[k].id = LoadedMessageId}

\* C13: the client has sent a request only if it has dispatched the worker's ready
\* message; the worker posts the ready message once, as its first message, and handles
\* a request only after that.
C13_ReadyBeforeTraffic ==
    /\ sent # <<>> => booted
    /\ booted => cHead >= 1 /\ 1 \in ReadyPosts
    /\ ReadyPosts = IF workerUp THEN {1} ELSE {}
    /\ wHead > 0 => workerUp
    /\ Len(posted) > 1 => 1 \in ReadyPosts

\* the client has sent requests after the ready message and the worker has answered one
C13_Witness ==
    /\ booted /\ wHead >= 1 /\ Len(posted) >= 2 /\ Len(sent) >= 2
    /\ posted[1].kind = "loaded"

----------------------------------------------------------------------------
(* Claims about the finalization registry.                                 *)

\* the Destroy requests among the sent ones that carry module id m
DestroysOf(m) == {k \in DOMAIN sent : sent[k].kind = "destroy" /\ sent[k].moduleId = m}

\* the client sends a Destroy request in this step
SendsDestroy ==
    /\ Len(sent') = Len(sent) + 1
    /\ sent'[Len(sent')].kind = "destroy"

\* C14: a handle is registered under its module id from its construction on; a Destroy
\* request is sent only for a handle that has become unreachable, carries exactly that
\* handle's module id and is the only one ever sent for it; a handle that is still
\* reachable has had no Destroy sent for its module id.
C14_DestroyOnlyForUnreachableOnce ==
    [][/\ \A h \in DOMAIN handles' :
            /\ handles'[h].registered = handles'[h].id
            /\ h \notin DOMAIN handles => handles'[h].state = "live"
            /\ handles'[h].state = "live" => DestroysOf(handles'[h].id) = {}
            /\ handles'[h].state = "unreachable" => DestroysOf(handles'[h].id) = {}
            /\ Cardinality({k \in DOMAIN sent' : sent'[k].kind = "destroy"
                               /\ sent'[k].moduleId = handles'[h].id}) <= 1
       /\ SendsDestroy =>
            \E h \in DOMAIN handles :
                /\ handles[h].state = "unreachable"
                /\ handles'[h].state = "finalized"
                /\ sent'[Len(sent')].moduleId = handles[h].id
                /\ DestroysOf(handles[h].id) = {}
       /\ \A h \in DOMAIN handles :
            /\ handles[h].state = "finalized" => handles'[h].state = "finalized"
            /\ handles[h].state = "unreachable" => handles'[h].state # "live"]_vars

\* the Destroy for one handle's module id has been sent after the handle became
\* unreachable, while another handle is still reachable and has none
C14_Witness ==
    \E h \in DOMAIN handles, g \in DOMAIN handles :
        /\ handles[h].state = "finalized"
        /\ Cardinality(DestroysOf(handles[h].id)) = 1
        /\ handles[g].state = "live"
        /\ DestroysOf(handles[g].id) = {}

----------------------------------------------------------------------------
(* The tree view, src/src/components/TreeView.tsx.  Strings are sequences  *)
(* of one-character strings.  A tree is a function from node index to      *)
(* node; a node lists its children by index.                               *)

\* item ranges lie in 0..MaxOffset
MaxOffset == 3
\* items in a list given to the tree builder
MaxItems == 3

\* TreeView.tsx:458, 467: the index of the synthetic root
RootIndex == -1

\* TreeView.tsx:455-456, 464-465
RootName == <<"r", "o", "o", "t">>

\* an Item of the engine's interface (local-module-module.d.ts)
Item(rawName, displayName, range) ==
    [rawName |-> rawName, displayName |-> displayName, range |-> range]

\* TreeView.tsx:475-481: the ItemTree node made for an item
ItemTree(rawName, displayName, range, index) ==
    [rawName |-> rawName, displayName |-> displayName, range |-> range,
     index |-> index, children |-> <<>>]

\* TreeView.tsx:486-489: the parent's range contains the item's
Contains(parent, item) ==
    /\ item.range.start >= parent.range.start
    /\ item.range.end <= parent.range.end

\* TreeView.tsx:484-493: pop the stack until its top contains the item or only the
\* root is left
RECURSIVE PopToContainer(_, _, _)
PopToContainer(nodes, stack, item) ==
    IF Len(stack) > 1 /\ ~Contains(nodes[stack[Len(stack)]], item)
    THEN PopToContainer(nodes, SubSeq(stack, 1, Len(stack) - 1), item)
    ELSE stack

\* the children appended at the front of the parent's list
PushChildFirst(nodes, parent, node) ==
    (node.index :> node) @@ [nodes EXCEPT ![parent].children = <<node.index>> \o @]

\* TreeView.tsx:496-497: parent.children.push(node)
PushChild(nodes, parent, node) ==
    (node.index :> node) @@ [nodes EXCEPT ![parent].children = Append(@, node.index)]

\* a round that pushes every item, those of empty range too
AddItemPushesAlways(st, item, index) ==
    LET stack == PopToContainer(st.nodes, st.stack, item)
        node == ItemTree(item.rawName, item.displayName, item.range, index)
    IN [nodes |-> PushChild(st.nodes, stack[Len(stack)], node),
        stack |-> Append(stack, index)]

\* TreeView.tsx:474-503: one round of the forEach, on the item at position index
AddItem(st, item, index) ==
    LET stack == PopToContainer(st.nodes, st.stack, item)
        node == ItemTree(item.rawName, item.displayName, item.range, index)
    IN [nodes |-> PushChild(st.nodes, stack[Len(stack)], node),
        stack |-> IF item.range.end > item.range.start
                  THEN Append(stack, index) ELSE stack]

\* TreeView.tsx:474: items.forEach from the i-th item on (indices are i - 1)
RECURSIVE ForEachItem(_, _, _)
ForEachItem(st, its, i) ==
    IF i > Len(its) THEN st ELSE ForEachItem(AddItem(st, its[i], i - 1), its, i + 1)

\* a root one byte wide for the empty list
RootOfOneByte(its) ==
    ItemTree(RootName, RootName, Rng(0, IF its = <<>> THEN 1 ELSE its[Len(its)].range.end),
             RootIndex)

\* TreeView.tsx:453-469: the synthetic root; `end || 0` is end for every number
RootOf(its) ==
    IF Len(its) = 0
    THEN ItemTree(RootName, RootName, Rng(0, 0), RootIndex)
    ELSE ItemTree(RootName, RootName, Rng(0, its[Len(its)].range.end), RootIndex)

\* TreeView.tsx:452-506
itemsToTree(its) ==
    IF Len(its) = 0
    THEN (RootIndex :> RootOf(its))
    ELSE ForEachItem([nodes |-> (RootIndex :> RootOf(its)), stack |-> <<RootIndex>>],
                     its, 1).nodes

\* the lists of at most n elements of S
SeqsUpTo(S, n) == UNION {[1..k -> S] : k \in 0..n}

\* the ranges within 0..MaxOffset
TreeRanges ==
    {r \in {Rng(a, b) : a \in 0..MaxOffset, b \in 0..MaxOffset} : r.start <= r.end}

\* the item lists given to the tree builder: any ranges, in any order
TreeItemLists ==
    {[i \in DOMAIN rs |-> Item(<<"f">>, <<"f">>, rs[i])] : rs \in SeqsUpTo(TreeRanges, MaxItems)}

\* TreeView.tsx:517: the component is rendered with some props.items
InitTree ==
    /\ BridgeInit
    /\ AppInit
    /\ RestInit
    /\ propsItems \in TreeItemLists
    /\ searchText = <<>>
    /\ itemTree = <<>>
    /\ highlightedIndex = -1
    /\ scores = <<>>
    /\ viewPc = "render"

\* TreeView.tsx:518-521: useMemo(() => itemsToTree(props.items))
BuildTree ==
    /\ viewPc = "render"
    /\ itemTree' = itemsToTree(propsItems)
    /\ viewPc' = "effects"
    /\ UNCHANGED <<propsItems, searchText, highlightedIndex, scores>>
    /\ UNCHANGED <<clientVars, workerVars, posted>>
    /\ UNCHANGED <<appVars, restVars>>

----------------------------------------------------------------------------
(* Numbers that are not integers: a score is a fraction n/d with d > 0,    *)
(* or NaN; rounding of the floating-point operations is left out.          *)

Q(n, d) == [n |-> n, d |-> d]
NaN == Q(0, 0)
IsNaN(a) == a.d = 0

\* a / b for integers a >= 0, b >= 0 with a = 0 whenever b = 0 (the only divisions
\* by zero fuzzyMatchTreeView makes are 0 / 0)
Div(a, b) == IF b = 0 THEN NaN ELSE Q(a, b)

\* a/b > c/d for b > 0 and d > 0, by whole parts and then remainders, so that no
\* product leaves the integers the checker computes with
RECURSIVE FracGt(_, _, _, _)
FracGt(a, b, c, d) ==
    IF a \div b # c \div d THEN a \div b > c \div d
    ELSE IF a % b = 0 THEN FALSE
    ELSE IF c % d = 0 THEN TRUE
    ELSE FracGt(d, c % d, b, a % b)

\* a > b, a >= b, a === b: false when either is NaN
Gt(a, b) == ~IsNaN(a) /\ ~IsNaN(b) /\ FracGt(a.n, a.d, b.n, b.d)
Geq(a, b) == ~IsNaN(a) /\ ~IsNaN(b) /\ ~FracGt(b.n, b.d, a.n, a.d)
Eq(a, b) == Geq(a, b) /\ Geq(b, a)

Plus(a, b) == IF IsNaN(a) \/ IsNaN(b) THEN NaN ELSE Q(a.n * b.d + b.n * a.d, a.d * b.d)
MathMax(a, b) == IF IsNaN(a) \/ IsNaN(b) THEN NaN ELSE IF Gt(b, a) THEN b ELSE a
MathMin(a, b) == IF IsNaN(a) \/ IsNaN(b) THEN NaN ELSE IF Gt(a, b) THEN b ELSE a

----------------------------------------------------------------------------
(* String operations of the runtime.                                       *)

UpperCase == <<"A", "B", "C", "D", "E", "F", "G", "H", "I", "J", "K", "L", "M",
               "N", "O", "P", "Q", "R", "S", "T", "U", "V", "W", "X", "Y", "Z">>
LowerCase == <<"a", "b", "c", "d", "e", "f", "g", "h", "i", "j", "k", "l", "m",
               "n", "o", "p", "q", "r", "s", "t", "u", "v", "w", "x", "y", "z">>
HexDigits == <<"0", "1", "2", "3", "4", "5", "6", "7", "8", "9",
               "a", "b", "c", "d", "e", "f">>

LowerChar(c) ==
    IF \E i \in DOMAIN UpperCase : UpperCase[i] = c
    THEN LowerCase[CHOOSE i \in DOMAIN UpperCase : UpperCase[i] = c]
    ELSE c

\* String.prototype.toLowerCase
toLowerCase(str) == [i \in DOMAIN str |-> LowerChar(str[i])]

\* String.prototype.startsWith
startsWith(str, prefix) ==
    Len(str) >= Len(prefix) /\ SubSeq(str, 1, Len(prefix)) = prefix

\* String.prototype.includes
includes(str, sub) ==
    \E i \in 0..(Len(str) - Len(sub)) : SubSeq(str, i + 1, i + Len(sub)) = sub

\* str.replace(/^0x/, "")
replace0x(str) ==
    IF startsWith(str, <<"0", "x">>) THEN SubSeq(str, 3, Len(str)) ELSE str

\* !str.trim(): nothing but white space
IsBlank(str) == \A i \in DOMAIN str : str[i] = " "

IsHexDigit(c) == \E i \in DOMAIN HexDigits : HexDigits[i] = LowerChar(c)
HexDigitValue(c) == (CHOOSE i \in DOMAIN HexDigits : HexDigits[i] = LowerChar(c)) - 1

\* the value of the longest prefix of str made of hexadecimal digits, NaN if it is empty
RECURSIVE ParseHexDigits(_, _, _)
ParseHexDigits(str, acc, seen) ==
    IF str # <<>> /\ IsHexDigit(str[1])
    THEN ParseHexDigits(Tail(str), acc * Len(HexDigits) + HexDigitValue(str[1]), TRUE)
    ELSE [nan |-> ~seen, value |-> acc]

RECURSIVE SkipWhiteSpace(_)
SkipWhiteSpace(str) ==
    IF str # <<>> /\ str[1] = " " THEN SkipWhiteSpace(Tail(str)) ELSE str

\* parseInt(str, 16): leading white space, a sign and a 0x or 0X prefix are skipped
parseInt16(str) ==
    LET s1 == SkipWhiteSpace(str)
        neg == s1 # <<>> /\ s1[1] = "-"
        s2 == IF s1 # <<>> /\ s1[1] \in {"-", "+"} THEN Tail(s1) ELSE s1
        s3 == IF startsWith(toLowerCase(s2), <<"0", "x">>) THEN SubSeq(s2, 3, Len(s2)) ELSE s2
        r == ParseHexDigits(s3, 0, FALSE)
    IN [nan |-> r.nan, value |-> IF neg THEN 0 - r.value ELSE r.value]

----------------------------------------------------------------------------
(* The search box of the tree view.                                        *)

\* TreeView.tsx:430: the floor of an offset match's score, 0.5
OffsetScoreFloor == Q(1, 2)
\* TreeView.tsx:430: the range size that takes a whole point off
OffsetScoreScale == 1000000
\* TreeView.tsx:564: threshold = 0.3
Threshold == Q(3, 10)

\* TreeView.tsx:426
InRange(hexValue, itemRange) ==
    hexValue >= itemRange.start /\ hexValue <= itemRange.end

\* TreeView.tsx:427-430
OffsetScore(itemRange) ==
    MathMax(OffsetScoreFloor,
            Q(OffsetScoreScale - (itemRange.end - itemRange.start), OffsetScoreScale))

\* the overlap counted over the characters of the query instead of the name's
SimilarityScoreByQueryChars(queryLower, nameLower) ==
    LET commonChars ==
            Cardinality({i \in DOMAIN queryLower : includes(nameLower, <<queryLower[i]>>)})
        maxLength == IF Len(nameLower) > Len(queryLower)
                     THEN Len(nameLower) ELSE Len(queryLower)
        score == Div(commonChars, maxLength)
    IN IF includes(nameLower, queryLower)
       THEN MathMin(Plus(score, Div(Len(queryLower), Len(nameLower))), Q(1, 1))
       ELSE score

\* TreeView.tsx:436-449: character overlap, boosted for a substring match
SimilarityScore(queryLower, nameLower) ==
    LET commonChars ==
            Cardinality({i \in DOMAIN nameLower : includes(queryLower, <<nameLower[i]>>)})
        maxLength == IF Len(nameLower) > Len(queryLower)
                     THEN Len(nameLower) ELSE Len(queryLower)
        score == Div(commonChars, maxLength)
    IN IF includes(nameLower, queryLower)
       THEN MathMin(Plus(score, Div(Len(queryLower), Len(nameLower))), Q(1, 1))
       ELSE score

\* the score that also counts the name when the text is an offset
fuzzyMatchTreeViewMax(query, itemName, itemRange) ==
    LET queryLower == toLowerCase(query)
        nameLower == toLowerCase(itemName)
        hexValue == parseInt16(replace0x(queryLower))
    IN IF startsWith(queryLower, <<"0", "x">>) /\ ~hexValue.nan
       THEN MathMax(IF InRange(hexValue.value, itemRange) THEN OffsetScore(itemRange)
                    ELSE Q(0, 1),
                    SimilarityScore(queryLower, nameLower))
       ELSE SimilarityScore(queryLower, nameLower)

\* TreeView.tsx:413-450; both callers (TreeView.tsx:567, 574) pass itemRange
fuzzyMatchTreeView(query, itemName, itemRange) ==
    LET queryLower == toLowerCase(query)
        nameLower == toLowerCase(itemName)
        hexValue == parseInt16(replace0x(queryLower))
    IN IF startsWith(queryLower, <<"0", "x">>) /\ ~hexValue.nan
       THEN IF InRange(hexValue.value, itemRange) THEN OffsetScore(itemRange) ELSE Q(0, 1)
       ELSE SimilarityScore(queryLower, nameLower)

\* the update made only for a score above the threshold
ConsiderAboveThreshold(best, score, index) ==
    IF Gt(score, best.score) /\ Gt(score, Threshold)
    THEN [match |-> index, score |-> score]
    ELSE best

\* the update made also for a score equal to the best so far
ConsiderEqual(best, score, index) ==
    IF Geq(score, best.score) /\ Geq(score, Threshold)
    THEN [match |-> index, score |-> score]
    ELSE best

\* TreeView.tsx:568-571, 575-578
Consider(best, score, index) ==
    IF Gt(score, best.score) /\ Geq(score, Threshold)
    THEN [match |-> index, score |-> score]
    ELSE best

\* TreeView.tsx:566-580: one round of the forEach
ConsiderItem(best, query, item, index) ==
    LET b1 == Consider(best, fuzzyMatchTreeView(query, item.displayName, item.range), index)
    IN IF item.displayName # item.rawName
       THEN Consider(b1, fuzzyMatchTreeView(query, item.rawName, item.range), index)
       ELSE b1

RECURSIVE BestMatch(_, _, _, _)
BestMatch(best, query, its, i) ==
    IF i > Len(its) THEN best
    ELSE BestMatch(ConsiderItem(best, query, its[i], i - 1), query, its, i + 1)

\* the scores the effect computed, by item: of the display name and of the raw name
ScoresOf(query, its) ==
    [i \in DOMAIN its |->
        [display |-> fuzzyMatchTreeView(query, its[i].displayName, its[i].range),
         raw |-> fuzzyMatchTreeView(query, its[i].rawName, its[i].range)]]

\* TreeView.tsx:554-583: the highlight effect
Highlight ==
    /\ viewPc = "effects"
    /\ viewPc' = "idle"
    /\ IF IsBlank(searchText)
       THEN /\ highlightedIndex' = -1
            /\ scores' = <<>>
       ELSE LET query == toLowerCase(searchText) IN
            /\ highlightedIndex' =
                   BestMatch([match |-> -1, score |-> Q(0, 1)], query, propsItems, 1).match
            /\ scores' = ScoresOf(query, propsItems)
    /\ UNCHANGED <<propsItems, searchText, itemTree>>
    /\ UNCHANGED <<clientVars, workerVars, posted>>
    /\ UNCHANGED <<appVars, restVars>>

\* TreeView.tsx:517-583: a render of the component
NextView ==
    \/ BuildTree
    \/ Highlight

\* the tree builder on every bounded item list
SpecTree == InitTree /\ [][NextView]_vars

\* characters in a search text
MaxQueryLen == 4
\* items in a list that is searched
MaxSearchItems == 2

\* the characters typed into the search box
QueryChars == {"0", "1", "x", "X"}

\* the search texts
Queries == SeqsUpTo(QueryChars, MaxQueryLen)

\* the items searched: adjacent ranges, a large range, names in both cases
SearchItems ==
    {Item(<<"1", "x", "1">>, <<"1", "x", "1">>, Rng(0, 5)),
     Item(<<"x", "1", "0">>, <<"X", "1", "0">>, Rng(5, 20)),
     Item(<<"f", "1">>, <<"g">>, Rng(0, 16)),
     Item(<<"m", "m", "m", "m", "m", "m", "m", "0", "1", "x">>,
          <<"m", "m", "m", "m", "m", "m", "m", "0", "1", "x">>, Rng(16, 600000))}

\* TreeView.tsx:517: the component is rendered with some props.items after
\* setSearchText (TreeView.tsx:527) has stored some text
InitSearch ==
    /\ BridgeInit
    /\ AppInit
    /\ RestInit
    /\ propsItems \in SeqsUpTo(SearchItems, MaxSearchItems)
    /\ searchText \in Queries
    /\ itemTree = <<>>
    /\ highlightedIndex = -1
    /\ scores = <<>>
    /\ viewPc = "render"

\* the search on every bounded search text and item list
SpecSearch == InitSearch /\ [][NextView]_vars

----------------------------------------------------------------------------
(* The cross-reference search of the application: fuzzy (part_003:56-103)  *)
(* and searchXRef (App.tsx:299-318).  The application's items are the      *)
(* loaded module's, the list the tree view gets as props.items             *)
(* (App.tsx:359).                                                          *)

\* items in a list that fuzzy searches
MaxFuzzyItems == 3
\* characters in a cross-reference
MaxXRefLen == 2

\* part_003:71-95: the scan of the name for the characters of the search, in order,
\* from position i of the name (counted from 1) with searchIndex characters found
RECURSIVE FuzzyScan(_, _, _, _, _, _)
FuzzyScan(nameLower, searchLower, i, searchIndex, score, consecutiveBonus) ==
    IF i > Len(nameLower) \/ searchIndex >= Len(searchLower)
    THEN [matched |-> searchIndex = Len(searchLower), score |-> score]
    ELSE IF nameLower[i] = searchLower[searchIndex + 1]
    THEN FuzzyScan(nameLower, searchLower, i + 1, searchIndex + 1,
                   score + 1 + (consecutiveBonus + 1)
                     + (IF i = 1 \/ nameLower[i - 1] \in {" ", "-", "_"} THEN 3 ELSE 0),
                   consecutiveBonus + 1)
    ELSE FuzzyScan(nameLower, searchLower, i + 1, searchIndex, score, 0)

\* part_003:65-98: the score of one item, by its display name
FuzzyScore(it, search) ==
    FuzzyScan(toLowerCase(it.displayName), toLowerCase(search), 1, 0, 0, 0)

\* part_003:64-100: the items all of whose search characters were found, with their
\* scores, in the order of the items; an item is named by its index
FuzzyMatched(e) == e.matched
FuzzyScored(its, search) ==
    SelectSeq([i \in DOMAIN its |->
                  [index |-> i - 1,
                   matched |-> FuzzyScore(its[i], search).matched,
                   score |-> FuzzyScore(its[i], search).score]],
              FuzzyMatched)

\* the entries of one score, the later first
TiedEntriesReversed(scored, top) ==
    LET tied == SelectSeq(scored, LAMBDA e : e.score = top)
    IN [k \in DOMAIN tied |-> tied[Len(tied) + 1 - k]]

\* part_003:102: sort((a, b) => b.score - a.score) is stable: the entries of one
\* score keep their order
TiedEntries(scored, top) ==
    SelectSeq(scored, LAMBDA e : e.score = top)

\* part_003:102: the entries whose scores are in the set, the greater score first
RECURSIVE SortByScore(_, _)
SortByScore(scored, scoreSet) ==
    IF scoreSet = {} THEN <<>>
    ELSE LET top == CHOOSE v \in scoreSet : \A w \in scoreSet : v >= w
         IN TiedEntries(scored, top) \o SortByScore(scored, scoreSet \ {top})

\* part_003:56-103
fuzzy(its, search) ==
    IF IsBlank(search)
    THEN [i \in DOMAIN its |-> i - 1]
    ELSE LET scored == FuzzyScored(its, search)
             sorted == SortByScore(scored, {scored[i].score : i \in DOMAIN scored})
         IN [k \in DOMAIN sorted |-> sorted[k].index]

\* App.tsx:301-303: items.findIndex by raw name or display name, -1 if there is none
ExactMatchIndex(its, xref) ==
    LET hits == {i \in DOMAIN its : its[i].rawName = xref \/ its[i].displayName = xref}
    IN IF hits = {} THEN -1 ELSE (CHOOSE i \in hits : \A j \in hits : i <= j) - 1

\* App.tsx:299-318
SearchXRef(xref) ==
    LET exactMatchIndex == ExactMatchIndex(propsItems, xref)
        found == fuzzy(propsItems, xref)
    IN IF exactMatchIndex # -1
       THEN /\ appItem' = ItemRef(loadedModule, exactMatchIndex)
            /\ UNCHANGED <<searchQuery, searchResults, showItemPicker>>
       ELSE /\ appItem' = IF Len(found) = 1 THEN ItemRef(loadedModule, found[1]) ELSE appItem
            /\ searchResults' = IF Len(found) > 1 THEN found ELSE searchResults
            /\ searchQuery' = IF Len(found) > 1 THEN xref ELSE searchQuery
            /\ showItemPicker' = IF Len(found) > 1 THEN TRUE ELSE showItemPicker

\* a click on a name in the text (Toolbar.tsx:239-267) searches for it
ClickXRef(xref) ==
    /\ SearchXRef(xref)
    /\ UNCHANGED restVars
    /\ UNCHANGED <<appModule, loadedModule, effectsModule, bodyState, effectFor>>
    /\ UNCHANGED viewVars
    /\ UNCHANGED <<clientVars, workerVars, posted>>

\* the items searched: names that tie, a word boundary, a name out of order
FuzzyItems ==
    {Item(<<"a", "b">>, <<"a", "b">>, Rng(0, 1)),
     Item(<<"x">>, <<"A", "b">>, Rng(0, 1)),
     Item(<<"a", "_", "b">>, <<"a", "_", "b">>, Rng(0, 1)),
     Item(<<"b", "a">>, <<"b", "a">>, Rng(0, 1))}

\* the item lists searched: the short ones, and one of 101 items of one name
FuzzyItemLists ==
    SeqsUpTo(FuzzyItems, MaxFuzzyItems)
        \cup {[i \in 1..101 |-> Item(<<"a", "b">>, <<"a", "b">>, Rng(0, 1))]}

\* the cross-references clicked
XRefs == SeqsUpTo({"a", "b", "B"}, MaxXRefLen)

InitFuzzy ==
    /\ BridgeInit
    /\ AppInit
    /\ RestInit
    /\ propsItems \in FuzzyItemLists
    /\ searchText = <<>>
    /\ itemTree = <<>>
    /\ highlightedIndex = -1
    /\ scores = <<>>
    /\ viewPc = "unmounted"

NextFuzzy == \E xref \in XRefs : ClickXRef(xref)

\* the cross-reference search on every bounded item list
SpecFuzzy == InitFuzzy /\ [][NextFuzzy]_vars

----------------------------------------------------------------------------
(* The application around the bridge: AppInner (App.tsx:90-437) and the    *)
(* text viewer WatViewer (Toolbar.tsx:155-291).  A promise of Module.load  *)
(* or of a print is named by the index of its call, and a handle by the    *)
(* index of the load call that made it.  The offset state is apart, below. *)
(* React renders after a state change or the settling of a promise it      *)
(* waits for, and runs the effects whose dependencies changed after the    *)
(* render is committed; when it does so is left open: a render or an       *)
(* effect that is due may run at any later time.                           *)

\* the artifacts a file may hold
AppSources == Sources \cup {"large"}

\* the search picker is not touched
PickerUnchanged == UNCHANGED <<searchQuery, searchResults, showItemPicker>>

\* nothing is sent, received or handled
BridgeUnchanged == UNCHANGED <<clientVars, workerVars, posted>>

\* App.tsx:99 throws what Module.load threw; Toolbar.tsx:189 throws what the print
\* threw: the ErrorBoundary (App.tsx:31-76) replaces the application for good
Crashed ==
    \/ appModule # 0 /\ calls[appModule].status = "threw"
    \/ bodyState # 0 /\ calls[bodyState].status = "threw"

\* the panels with the viewer kept next to the error
PanelsWithViewer(validateError) ==
    IF validateError # "null" THEN {"error-view", "wat-viewer"}
    ELSE {"wat-viewer", "tree-view"}

\* App.tsx:320-377: the panels of a module with the given validateError
Panels(validateError) ==
    IF validateError # "null" THEN {"error-view"} ELSE {"wat-viewer", "tree-view"}

\* the panels on the page
Shown ==
    IF loadedModule = 0 \/ Crashed THEN {}
    ELSE Panels(handles[loadedModule].validateError)

\* App.tsx:99: React.use(module) has given the current module and AppInner is on
\* the page, not the fallback of App.tsx:83
Interactive == loadedModule # 0 /\ appModule = loadedModule /\ ~Crashed

\* Toolbar.tsx:173: item.range
ItemRange(it) == handles[it.module].items[it.index + 1]

\* App.tsx:20-25: the initial module, loaded once module.tsx has been evaluated
AppStart ==
    /\ appModule = 0
    /\ Load("valid")
    /\ appModule' = Len(calls) + 1
    /\ UNCHANGED <<appItem, loadedModule, effectsModule, bodyState, effectFor>>
    /\ PickerUnchanged
    /\ UNCHANGED restVars

\* App.tsx:240-243: a file is dropped or chosen
HandleFileLoad(src) ==
    /\ Interactive
    /\ Load(src)
    /\ appModule' = Len(calls) + 1
    /\ UNCHANGED <<appItem, loadedModule, effectsModule, bodyState, effectFor>>
    /\ PickerUnchanged
    /\ UNCHANGED restVars

\* App.tsx:99, 320-377: the module's promise has resolved and AppInner renders with
\* it; a viewer that is not among the new panels is unmounted and its state is lost
AppRender ==
    /\ appModule # 0 /\ appModule # loadedModule
    /\ calls[appModule].status = "returned"
    /\ loadedModule' = appModule
    /\ IF "wat-viewer" \in Panels(handles[appModule].validateError)
       THEN UNCHANGED <<bodyState, effectFor>>
       ELSE bodyState' = 0 /\ effectFor' = <<>>
    /\ UNCHANGED <<appItem, appModule, effectsModule>>
    /\ PickerUnchanged
    /\ UNCHANGED restVars
    /\ BridgeUnchanged
    /\ UNCHANGED viewVars

\* App.tsx:108-150: after a render with another module the URL names the first item
\* if it is short enough for the rich printer, and the item is set from the URL
AppModuleEffects ==
    /\ loadedModule # 0 /\ ~Crashed
    /\ effectsModule # loadedModule
    /\ effectsModule' = loadedModule
    /\ LET its == handles[loadedModule].items IN
       appItem' = IF Len(its) > 0 /\ its[1].end - its[1].start <= MaxBytesForRich
                  THEN ItemRef(loadedModule, 0)
                  ELSE NoItem
    /\ UNCHANGED <<appModule, loadedModule, bodyState, effectFor>>
    /\ PickerUnchanged
    /\ UNCHANGED restVars
    /\ BridgeUnchanged
    /\ UNCHANGED viewVars

\* App.tsx:356-376: an item is chosen in the navigator
SelectItem(index) ==
    /\ Interactive
    /\ "tree-view" \in Shown
    /\ index >= 0 /\ index < Len(handles[loadedModule].items)
    /\ appItem' = ItemRef(loadedModule, index)
    /\ UNCHANGED <<appModule, loadedModule, effectsModule, bodyState, effectFor>>
    /\ PickerUnchanged
    /\ UNCHANGED restVars
    /\ BridgeUnchanged
    /\ UNCHANGED viewVars

\* Toolbar.tsx:169-187: the viewer's effect for a new [content, item]: the print is
\* called and its promise becomes the body state
WatViewerEffect ==
    /\ "wat-viewer" \in Shown
    /\ effectFor # <<loadedModule, appItem>>
    /\ effectFor' = <<loadedModule, appItem>>
    /\ IF appItem = NoItem
       THEN /\ UNCHANGED bodyState
            /\ BridgeUnchanged
            /\ UNCHANGED viewVars
       ELSE /\ LET range == ItemRange(appItem) IN
               IF range.end - range.start > MaxBytesForRich
               THEN PrintPlain(loadedModule, range)
               ELSE PrintRich(loadedModule, range)
            /\ bodyState' = Len(calls) + 1
    /\ UNCHANGED <<appItem, appModule, loadedModule, effectsModule>>
    /\ PickerUnchanged
    /\ UNCHANGED restVars

\* the result of the print whose response came last
BodyOfLastResponse ==
    LET done == {i \in DOMAIN calls :
                    /\ calls[i].op \in {"printRich", "printPlain"}
                    /\ calls[i].status = "returned" /\ ~calls[i].hit}
        at(i) == CHOOSE k \in 1..cHead : posted[k] = promises[calls[i].msg].by
    IN IF done = {} THEN <<>>
       ELSE calls[CHOOSE i \in done : \A j \in done : at(i) >= at(j)].result

\* Toolbar.tsx:189: body = React.use(bodyState), the value of the promise the viewer
\* holds now
Body == IF bodyState = 0 THEN <<>> ELSE calls[bodyState].result

\* Toolbar.tsx:189: React.use(bodyState) has a value and the viewer shows it
Displaying ==
    /\ "wat-viewer" \in Shown
    /\ Interactive
    /\ bodyState = 0 \/ calls[bodyState].status = "returned"

NextApp ==
    \/ AppStart
    \/ \E src \in AppSources : HandleFileLoad(src)
    \/ AppRender
    \/ AppModuleEffects
    \/ \E index \in 0..1 : SelectItem(index)
    \/ WatViewerEffect
    \/ ClientReceive
    \/ WorkerStart
    \/ WorkerHandle

\* the application on the composed bridge
SpecApp == Init /\ [][NextApp]_vars

\* responses the remote may post to the viewer's client
MaxPostV == 4

RemoteAnswer(id, kind) ==
    /\ Len(posted) < MaxPostV
    /\ posted' = Append(posted, AnyResponse(id, kind))
    /\ UNCHANGED clientVars
    /\ UNCHANGED workerVars
    /\ UNCHANGED viewVars
    /\ UNCHANGED <<appVars, restVars>>

NextViewer ==
    \/ AppStart
    \/ AppRender
    \/ AppModuleEffects
    \/ \E index \in 0..1 : SelectItem(index)
    \/ WatViewerEffect
    \/ ClientReceive
    \/ WorkerStart
    \/ \E id \in listeners \ {LoadedMessageId}, kind \in ResponseKinds :
          RemoteAnswer(id, kind)

\* the application's viewer against a remote that, once started, answers the
\* outstanding requests in any order, with any kind and any number of times
SpecViewer == Init /\ [][NextViewer]_vars

----------------------------------------------------------------------------
(* The selected item and offset of AppInner (App.tsx:92-94, 108-239,       *)
(* 356-371).  An item is given by its index in the items it was taken from *)
(* and its range.  React renders AppInner after a state change, with the   *)
(* state of that moment, and runs the effects whose dependencies changed   *)
(* with the values of that render, before it renders again; a handler may  *)
(* run between a render and its effects.  A setState made by an effect or  *)
(* a handler replaces the state.                                           *)

\* the highest byte offset
MaxNavOffset == 2
\* items of a module
MaxNavItems == 2

\* the ranges of items, empty ones included
NavRanges == {Rng(a, b) : a \in 0..MaxNavOffset, b \in 0..MaxNavOffset} \cap
             {r \in [start : 0..MaxNavOffset, end : 0..MaxNavOffset] : r.start <= r.end}

\* loadedModule.items of a module, by the ranges of the items
NavItemLists == SeqsUpTo(NavRanges, MaxNavItems)

\* the items of the modules loaded later: none, and an item within another
ReloadItemLists == {<<>>, <<Rng(0, 1), Rng(0, MaxNavOffset)>>}

\* the offsets a handler may set
NavOffsets == 0..MaxNavOffset

\* the item at the index, counted from 0
NavItemAt(its, index) == [index |-> index, range |-> its[index + 1]]

\* the item, offset and items now
Snapshot == <<navItem, navOffset, navItems>>

\* the render and the effects have caught up with the state
Quiescent == navRendered = Snapshot /\ navDeps = navRendered

\* App.tsx:210
OutsideItem(off, it) == off < it.range.start \/ off >= it.range.end

\* App.tsx:223-226
ContainsOffset(range, off) == off >= range.start /\ off < range.end

\* App.tsx:219-234: the loop over items from position i, with the smallest item so
\* far and its size; size -1 stands for Infinity
RECURSIVE SmallestItem(_, _, _, _, _)
SmallestItem(its, off, i, smallestItem, smallestSize) ==
    IF i > Len(its) THEN smallestItem
    ELSE LET size == its[i].end - its[i].start IN
         IF ContainsOffset(its[i], off) /\ (smallestSize = -1 \/ size < smallestSize)
         THEN SmallestItem(its, off, i + 1, NavItemAt(its, i - 1), size)
         ELSE SmallestItem(its, off, i + 1, smallestItem, smallestSize)

\* App.tsx:110-150: the item named by the URL after the effect of App.tsx:110-122
\* has written it: the first item if it is short enough for the rich printer
ItemFromURL(its) ==
    IF Len(its) > 0 /\ its[1].end - its[1].start <= MaxBytesForRich
    THEN NavItemAt(its, 0)
    ELSE NoNavItem

\* App.tsx:99-102: AppInner renders with the state
AppInnerRender ==
    /\ navRendered = navDeps
    /\ navRendered # Snapshot
    /\ navRendered' = Snapshot
    /\ UNCHANGED <<navItems, navItem, navOffset, navDeps>>

\* App.tsx:110-239: the effects after a render, with the item, offset and items of
\* that render; the first render runs them all, and there the URL has lost its
\* offset (App.tsx:120) before it is read (App.tsx:165-187)
OffsetEffects ==
    /\ navRendered # navDeps
    /\ LET it == navRendered[1]
           off == navRendered[2]
           its == navRendered[3]
           mount == navDeps = <<>>
           itemsChanged == mount \/ navDeps[3] # its
           pairChanged == mount \/ <<navDeps[1], navDeps[2]>> # <<it, off>>
           found == SmallestItem(its, off, 1, NoNavItem, -1)
           resets == /\ pairChanged
                     /\ off # NoOffset /\ it # NoNavItem
                     /\ OutsideItem(off, it)
           finds == /\ pairChanged \/ itemsChanged
                    /\ it = NoNavItem /\ off # NoOffset
                    /\ found # NoNavItem
       IN /\ navItem' = IF finds THEN found
                        ELSE IF itemsChanged THEN ItemFromURL(its)
                        ELSE navItem
          /\ navOffset' = IF resets \/ mount THEN NoOffset ELSE navOffset
    /\ navDeps' = navRendered
    /\ UNCHANGED <<navItems, navRendered>>

\* App.tsx:361-370, TreeView.tsx:706-733: an item is chosen in the navigator, by a
\* click or with Enter on the highlighted item, then with the offset the search text
\* parses to
OnItemSelected(index, off) ==
    /\ navRendered # <<>>
    /\ index >= 0 /\ index < Len(navRendered[3])
    /\ navItem' = NavItemAt(navRendered[3], index)
    /\ navOffset' = off
    /\ UNCHANGED <<navItems, navRendered, navDeps>>

\* Toolbar.tsx:222-237: an offset is clicked in the viewer, one of those printed for
\* the item it was rendered with
ViewerSetOffset(off) ==
    /\ navRendered # <<>>
    /\ navRendered[1] # NoNavItem
    /\ ContainsOffset(navRendered[1].range, off)
    /\ navOffset' = off
    /\ UNCHANGED <<navItems, navItem, navRendered, navDeps>>

\* App.tsx:125-138, 165-192: the history is walked and the URL names an item of the
\* items, or none, and an offset, or none
PopState(index, off) ==
    /\ navDeps # <<>>
    /\ index < Len(navDeps[3])
    /\ navItem' = IF index = -1 THEN NoNavItem ELSE NavItemAt(navDeps[3], index)
    /\ navOffset' = off
    /\ UNCHANGED <<navItems, navRendered, navDeps>>

\* App.tsx:240-243, 99: another module is loaded and its promise has resolved
ModuleLoaded(its) ==
    /\ navRendered # <<>>
    /\ navItems' = its
    /\ UNCHANGED <<navItem, navOffset, navRendered, navDeps>>

\* a handler of the page runs
NavHandler ==
    \/ \E index \in 0..(MaxNavItems - 1), off \in NavOffsets \cup {NoOffset} :
          OnItemSelected(index, off)
    \/ \E off \in NavOffsets : ViewerSetOffset(off)
    \/ \E index \in -1..(MaxNavItems - 1), off \in NavOffsets \cup {NoOffset} :
          PopState(index, off)
    \/ \E its \in ReloadItemLists : ModuleLoaded(its)

NextOffset ==
    /\ \/ AppInnerRender
       \/ OffsetEffects
       \/ NavHandler
    /\ UNCHANGED <<clientVars, workerVars, posted>>
    /\ UNCHANGED viewVars
    /\ UNCHANGED appVars
    /\ UNCHANGED <<debounceVars, serverVars>>

\* the handlers run only once the render and the effects have caught up
NextOffsetSettled ==
    /\ \/ AppInnerRender
       \/ OffsetEffects
       \/ Quiescent /\ NavHandler
    /\ UNCHANGED <<clientVars, workerVars, posted>>
    /\ UNCHANGED viewVars
    /\ UNCHANGED appVars
    /\ UNCHANGED <<debounceVars, serverVars>>

\* App.tsx:99: the first module has loaded with some items
InitOffset ==
    /\ BridgeInit
    /\ ViewUnmounted
    /\ AppInit
    /\ DebounceInit
    /\ StoreInit
    /\ navItems \in NavItemLists
    /\ navItem = NoNavItem
    /\ navOffset = NoOffset
    /\ navRendered = <<>>
    /\ navDeps = <<>>

\* the selection under every sequence of renders, effects and handlers
SpecOffset == InitOffset /\ [][NextOffset]_vars

\* the selection when no handler runs before React has rendered and run the effects
SpecOffsetSettled == InitOffset /\ [][NextOffsetSettled]_vars

----------------------------------------------------------------------------
(* The payload server (server/main.go) and its client (Api.ts:39-75).  A   *)
(* path is the sequence of its segments, time is counted in minutes, and   *)
(* the cleanup goroutine may run at any time.                              *)

\* minutes the clock runs for
MaxClock == 31
\* main.go:26: timeout, in minutes
StoreTimeout == 30

\* main.go:113-118: the keys generated
Keys == {"0a", "0b"}

\* the payloads stored
Payloads == {<<"p">>, <<"q">>}

\* main.go:17-20
Entry(data, timestamp) == [Data |-> data, Timestamp |-> timestamp]

\* main.go:33-35: the patterns registered on the default ServeMux
Patterns == {<<"proxy">>, <<"store">>, <<"retrieve">>}

\* net/http ServeMux: a pattern that does not end in a slash matches only the path
\* equal to it
MuxMatch(pattern, path) == path = pattern

\* net/http ServeMux: the handler a request is given to, NotFound if no pattern
\* matches its path
Route(path) ==
    IF \E pattern \in Patterns : MuxMatch(pattern, path)
    THEN CHOOSE pattern \in Patterns : MuxMatch(pattern, path)
    ELSE <<"NotFound">>

\* main.go:174, 194: the entry is older than the timeout
Expired(entry, now) == now - entry.Timestamp > StoreTimeout

\* what the store holds under the key: nothing, a live entry or an expired one
EntryState(key) ==
    IF key \notin DOMAIN store THEN "none"
    ELSE IF Expired(store[key], clock) THEN "expired" ELSE "live"

\* a response to a retrieve, with what the store held under the key when the
\* request was made
RetrieveResponse(key, status, body) ==
    [op |-> "retrieve", key |-> key, status |-> status, body |-> body,
     entry |-> EntryState(key),
     data |-> IF key \in DOMAIN store THEN store[key].Data ELSE <<>>]

\* main.go:145-186: retrieveHandler on a GET of the path; the slice of main.go:157
\* panics when the path is shorter than "/retrieve/", and net/http then drops the
\* connection
RetrieveHandler(path, key) ==
    IF Len(path) < 2
    THEN /\ httpResponse' = RetrieveResponse(key, 0, <<"connection closed">>)
         /\ UNCHANGED store
    ELSE LET k == path[2] IN
         IF k \notin DOMAIN store
         THEN /\ httpResponse' = RetrieveResponse(key, 404, <<"Key not found">>)
              /\ UNCHANGED store
         ELSE IF Expired(store[k], clock)
         THEN /\ httpResponse' = RetrieveResponse(key, 404, <<"Key not found">>)
              /\ store' = [x \in DOMAIN store \ {k} |-> store[x]]
         ELSE /\ httpResponse' = RetrieveResponse(key, 200, store[k].Data)
              /\ UNCHANGED store

\* Api.ts:42-56, main.go:104-143: storePayload posts the payload to /store and
\* returns the key of the response
StorePayload(payload) ==
    /\ Route(<<"store">>) = <<"store">>
    /\ \E key \in Keys :
          /\ store' = [x \in DOMAIN store \cup {key} |->
                          IF x = key THEN Entry(payload, clock) ELSE store[x]]
          /\ httpResponse' = [op |-> "store", key |-> key, status |-> 200,
                              body |-> <<key>>, entry |-> "live", data |-> payload]
    /\ UNCHANGED clock

\* Api.ts:61-75: retrievePayload gets /retrieve/<key>
RetrievePayload(key) ==
    /\ LET path == <<"retrieve", key>> IN
       IF Route(path) = <<"retrieve">>
       THEN RetrieveHandler(path, key)
       ELSE /\ httpResponse' = RetrieveResponse(key, 404, <<"404 page not found">>)
            /\ UNCHANGED store
    /\ UNCHANGED clock

\* a GET of /retrieve, the one path the handler is registered for
GetRetrieve ==
    /\ Route(<<"retrieve">>) = <<"retrieve">>
    /\ RetrieveHandler(<<"retrieve">>, "")
    /\ UNCHANGED clock

\* main.go:189-204: one round of the cleanup
CleanupExpiredEntries ==
    /\ store' = [x \in {k \in DOMAIN store : ~Expired(store[k], clock)} |-> store[x]]
    /\ UNCHANGED <<clock, httpResponse>>

\* a minute passes
Tick ==
    /\ clock < MaxClock
    /\ clock' = clock + 1
    /\ UNCHANGED <<store, httpResponse>>

NextStore ==
    /\ \/ \E payload \in Payloads : StorePayload(payload)
       \/ \E key \in Keys : RetrievePayload(key)
       \/ GetRetrieve
       \/ CleanupExpiredEntries
       \/ Tick
    /\ UNCHANGED <<clientVars, workerVars, posted>>
    /\ UNCHANGED viewVars
    /\ UNCHANGED appVars
    /\ UNCHANGED <<offsetVars, debounceVars>>

\* the server under every sequence of stores, retrieves, cleanups and minutes
SpecStore == Init /\ [][NextStore]_vars

----------------------------------------------------------------------------
(* The debounced function: debounce(f, ms) of part_003:43-54.  Time is      *)
(* counted in ticks; a timer set for ms ticks may fire once they have       *)
(* passed, at any later time, unless it is cleared before.                  *)

\* the ms the function is made with
DebounceMs == 2
\* invocations of f that are recorded
MaxInvoked == 4
\* calls of the debounced function while one timer is pending
MaxBurst == 3

\* the arguments of a call
DebounceArgs == {"a", "b"}

\* the callback that invokes f whatever fresh is
TimerCallbackAlways(fresh, args, log) == Append(log, args)

\* part_003:48-51: the timer's callback, on the invocations of f so far
TimerCallback(fresh, args, log) == IF ~fresh THEN Append(log, args) ELSE log

\* part_003:45-53: the function debounce returned is called with args
DebouncedCall(args) ==
    LET fresh == timeout = NoTimer IN
    /\ IF fresh THEN Len(invoked) + 2 <= MaxInvoked ELSE Len(burst.args) < MaxBurst
    /\ timeout' = DebounceMs
    /\ timerFresh' = fresh
    /\ timerArgs' = args
    /\ invoked' = IF fresh THEN Append(invoked, args) ELSE invoked
    /\ burst' = IF fresh THEN [before |-> Len(invoked), args |-> <<args>>]
                ELSE [burst EXCEPT !.args = Append(@, args)]

\* a tick passes while the timer is pending
TimePasses ==
    /\ timeout # NoTimer /\ timeout > 0
    /\ timeout' = timeout - 1
    /\ UNCHANGED <<timerFresh, timerArgs, invoked, burst>>

\* part_003:48-51: the timer fires
TimerExpires ==
    /\ timeout = 0
    /\ timeout' = NoTimer
    /\ invoked' = TimerCallback(timerFresh, timerArgs, invoked)
    /\ UNCHANGED <<timerFresh, timerArgs, burst>>

NextDebounce ==
    /\ \/ \E args \in DebounceArgs : DebouncedCall(args)
       \/ TimePasses
       \/ TimerExpires
    /\ UNCHANGED <<clientVars, workerVars, posted>>
    /\ UNCHANGED viewVars
    /\ UNCHANGED appVars
    /\ UNCHANGED <<offsetVars, serverVars>>

\* one debounced function under every sequence of calls and ticks
SpecDebounce == Init /\ [][NextDebounce]_vars

----------------------------------------------------------------------------
(* Claims about the tree builder.                                          *)

\* useMemo has run in this render
TreeBuilt == viewPc \in {"effects", "idle"}

\* the ordering precondition: no item comes before an item that contains it, unless
\* the two have the same range
OrderingPrecondition(its) ==
    \A i \in DOMAIN its, j \in DOMAIN its :
        (i < j /\ Contains(its[j], its[i])) => its[i].range = its[j].range

\* C15: for every item list that satisfies the ordering precondition, the range of
\* every node of the tree itemsToTree builds lies within the range of its parent, the
\* synthetic root included.
C15_ChildWithinParent ==
    (TreeBuilt /\ OrderingPrecondition(propsItems)) =>
        \A p \in DOMAIN itemTree :
            \A c \in DOMAIN itemTree[p].children :
                Contains(itemTree[p], itemTree[itemTree[p].children[c]])

RECURSIVE PreOrder(_, _)
RECURSIVE PreOrderList(_, _, _)
\* the indices of the nodes below and including node k, parent first, children in
\* their listed order
PreOrder(tree, k) == <<k>> \o PreOrderList(tree, tree[k].children, 1)
PreOrderList(tree, cs, i) ==
    IF i > Len(cs) THEN <<>>
    ELSE PreOrder(tree, cs[i]) \o PreOrderList(tree, cs, i + 1)

\* C16: for every item list, the pre-order traversal of the tree itemsToTree builds
\* visits the root and then the indices 0, 1, ..., n-1 in that order; the node with
\* index k carries the k-th item (counting from 0), and every node lists its children
\* in input order.
C16_PreOrderIsInputOrder ==
    TreeBuilt =>
        /\ PreOrder(itemTree, RootIndex) =
               [k \in 1..(Len(propsItems) + 1) |-> IF k = 1 THEN RootIndex ELSE k - 2]
        /\ DOMAIN itemTree = {RootIndex} \cup {k - 1 : k \in DOMAIN propsItems}
        /\ \A k \in DOMAIN propsItems :
            /\ itemTree[k - 1].index = k - 1
            /\ itemTree[k - 1].range = propsItems[k].range
            /\ itemTree[k - 1].rawName = propsItems[k].rawName
            /\ itemTree[k - 1].displayName = propsItems[k].displayName
        /\ \A p \in DOMAIN itemTree :
            \A a \in DOMAIN itemTree[p].children, b \in DOMAIN itemTree[p].children :
                a < b => itemTree[p].children[a] < itemTree[p].children[b]

\* a tree has been built in which an item has two children and the root has a child
\* after that item
C16_Witness ==
    /\ TreeBuilt
    /\ \E k \in DOMAIN itemTree :
        /\ k # RootIndex
        /\ Len(itemTree[k].children) >= 2
    /\ Len(propsItems) = MaxItems

\* C17: for the empty item list the tree is the synthetic root alone, with index -1,
\* no children and range [0,0].
C17_EmptyListGivesBareRoot ==
    (TreeBuilt /\ propsItems = <<>>) =>
        /\ DOMAIN itemTree = {-1}
        /\ itemTree[-1].index = -1
        /\ itemTree[-1].children = <<>>
        /\ itemTree[-1].range = Rng(0, 0)

\* the tree of the empty list has been built
C17_Witness ==
    /\ TreeBuilt
    /\ propsItems = <<>>
    /\ DOMAIN itemTree # {}

\* the index of the parent of the node with index k
ParentOf(tree, k) == CHOOSE p \in DOMAIN tree : \E c \in DOMAIN tree[p].children :
                                                  tree[p].children[c] = k

\* the item has an empty range
EmptyRange(it) == it.range.end <= it.range.start

\* the input is disjoint-or-nested and in pre-order: an item lies within each earlier
\* item or starts at or after its end
PreOrdered(its) ==
    \A i \in DOMAIN its, j \in DOMAIN its :
        i < j => Contains(its[i], its[j]) \/ its[j].range.start >= its[i].range.end

\* the indices of the non-empty items before the k-th (counted from 0) that contain it
Containers(its, k) ==
    {j - 1 : j \in {i \in DOMAIN its : i < k + 1 /\ ~EmptyRange(its[i])
                                        /\ Contains(its[i], its[k + 1])}}

\* p is innermost among the containers: none lies within it with another range, and
\* none of the same range comes after it
Innermost(its, k, p) ==
    /\ p \in Containers(its, k)
    /\ \A c \in Containers(its, k) :
          /\ Contains(its[p + 1], its[c + 1]) => its[c + 1].range = its[p + 1].range
          /\ its[c + 1].range = its[p + 1].range => c <= p

\* C32: an item is attached below a non-empty earlier item that contains it or below
\* the root, an item of empty range never has children, and for input in pre-order,
\* disjoint or nested, the parent of each item is the innermost earlier non-empty
\* item that contains it, the root if there is none
C32_ParentIsInnermostContainer ==
    TreeBuilt =>
        \A k \in DOMAIN itemTree \ {RootIndex} :
            LET p == ParentOf(itemTree, k) IN
            /\ p # RootIndex => p \in Containers(propsItems, k)
            /\ EmptyRange(propsItems[k + 1]) => itemTree[k].children = <<>>
            /\ PreOrdered(propsItems) =>
                  IF Containers(propsItems, k) = {} THEN p = RootIndex
                  ELSE Innermost(propsItems, k, p)

\* input in pre-order with an item within an item within an item, and input with an
\* item of empty range followed by an item of the same range
C32_Witness ==
    /\ TreeBuilt
    /\ \/ /\ PreOrdered(propsItems)
          /\ \E k \in DOMAIN itemTree \ {RootIndex} :
                /\ ParentOf(itemTree, k) # RootIndex
                /\ ParentOf(itemTree, ParentOf(itemTree, k)) # RootIndex
                /\ propsItems[k + 1].range # propsItems[ParentOf(itemTree, k) + 1].range
       \/ /\ PreOrdered(propsItems)
          /\ \E j \in DOMAIN propsItems, k \in DOMAIN propsItems :
                /\ j < k /\ EmptyRange(propsItems[j])
                /\ propsItems[k].range = propsItems[j].range
                /\ ParentOf(itemTree, k - 1) # j - 1

----------------------------------------------------------------------------
(* Claims about the search.                                                *)

\* the highlight effect has run on a search text that is not blank
Searched == viewPc = "idle" /\ ~IsBlank(searchText)

\* the search text has the form 0x<hex>, in either case
IsOffsetQuery(text) ==
    /\ startsWith(toLowerCase(text), <<"0", "x">>)
    /\ ~parseInt16(replace0x(toLowerCase(text))).nan

\* the offset a hexadecimal text stands for, with or without the 0x prefix
OffsetOf(text) == parseInt16(replace0x(toLowerCase(text))).value

\* offset v lies in the half-open range [start, end)
Within(v, range) == v >= range.start /\ v < range.end

\* C18: for a search text of the form 0x<hex> that parses to offset v, an item's score
\* is at least 0.5 exactly when v lies within the item's range [start, end), and is 0
\* otherwise.
C18_OffsetScoreIffWithinRange ==
    (Searched /\ IsOffsetQuery(searchText)) =>
        \A i \in DOMAIN propsItems :
            IF Within(OffsetOf(searchText), propsItems[i].range)
            THEN Geq(scores[i].display, Q(1, 2)) /\ Geq(scores[i].raw, Q(1, 2))
            ELSE Eq(scores[i].display, Q(0, 1)) /\ Eq(scores[i].raw, Q(0, 1))

\* C19: for a search text of the form 0x<hex> whose offset equals the end of an
\* item's range, that item scores 0: it is not matched.
C19_OffsetAtEndDoesNotMatch ==
    (Searched /\ IsOffsetQuery(searchText)) =>
        \A i \in DOMAIN propsItems :
            OffsetOf(searchText) = propsItems[i].range.end =>
                Eq(scores[i].display, Q(0, 1)) /\ Eq(scores[i].raw, Q(0, 1))

\* the search text is hexadecimal digits only
IsBareHex(text) ==
    /\ text # <<>>
    /\ \A i \in DOMAIN text : IsHexDigit(text[i])

\* C20: a search text of hexadecimal digits without the 0x prefix gives every item
\* the score the same text gives with the prefix.
C20_PrefixOptional ==
    (Searched /\ IsBareHex(searchText)) =>
        \A i \in DOMAIN propsItems :
            /\ Eq(scores[i].display,
                  fuzzyMatchTreeView(<<"0", "x">> \o searchText,
                                     propsItems[i].displayName, propsItems[i].range))
            /\ Eq(scores[i].raw,
                  fuzzyMatchTreeView(<<"0", "x">> \o searchText,
                                     propsItems[i].rawName, propsItems[i].range))

\* the positions of str whose character occurs in other
PositionsIn(str, other) == {i \in DOMAIN str : \E j \in DOMAIN other : other[j] = str[i]}

\* the longer of two lengths
Longer(a, b) == IF Len(a) > Len(b) THEN Len(a) ELSE Len(b)

\* common / longer, plus len(query) / len(name) when name contains query, at most 1
NameMatchFormula(common, query, name) ==
    IF includes(name, query)
    THEN MathMin(Plus(Q(common, Longer(query, name)), Q(Len(query), Len(name))), Q(1, 1))
    ELSE Q(common, Longer(query, name))

\* C21 as stated: the name-match score is the number of query characters present in
\* the name over the longer length, plus the substring boost, capped at 1.
C21_OverlapCountsQueryChars ==
    (Searched /\ ~IsOffsetQuery(searchText)) =>
        \A i \in DOMAIN propsItems :
            LET query == toLowerCase(searchText)
                name == toLowerCase(propsItems[i].displayName)
            IN Eq(scores[i].display,
                  NameMatchFormula(Cardinality(PositionsIn(query, name)), query, name))

\* C21 amended: the name-match score is the number of name characters present in the
\* query over the longer length, plus len(query)/len(name) when the name contains the
\* query as a contiguous substring, capped at 1; so for the raw name.
C21_OverlapCountsNameChars ==
    (Searched /\ ~IsOffsetQuery(searchText)) =>
        \A i \in DOMAIN propsItems :
            LET query == toLowerCase(searchText)
                name == toLowerCase(propsItems[i].displayName)
                raw == toLowerCase(propsItems[i].rawName)
            IN /\ Eq(scores[i].display,
                     NameMatchFormula(Cardinality(PositionsIn(name, query)), query, name))
               /\ Eq(scores[i].raw,
                     NameMatchFormula(Cardinality(PositionsIn(raw, query)), query, raw))

\* a name has been scored against a text that has more characters in the name than
\* the name has in the text, and its score is neither 0 nor 1
C21_Witness ==
    /\ Searched /\ ~IsOffsetQuery(searchText)
    /\ \E i \in DOMAIN propsItems :
        LET query == toLowerCase(searchText)
            name == toLowerCase(propsItems[i].displayName)
        IN /\ Cardinality(PositionsIn(query, name)) > Cardinality(PositionsIn(name, query))
           /\ Gt(scores[i].display, Q(0, 1))
           /\ Gt(Q(1, 1), scores[i].display)

\* neither name of the item contains the text: at most its characters overlap
OnlyOverlaps(item, text) ==
    /\ ~includes(toLowerCase(item.displayName), toLowerCase(text))
    /\ ~includes(toLowerCase(item.rawName), toLowerCase(text))

\* C22: when the search text equals an item's display name, that item's score is at
\* least what the substring-boost formula gives for the pair, and the highlighted item
\* is not one whose names merely share characters with the text, in whatever order the
\* items come.
C22_ExactNameOutranksOverlap ==
    Searched =>
        \A i \in DOMAIN propsItems :
            propsItems[i].displayName = searchText =>
                /\ Geq(scores[i].display,
                       NameMatchFormula(Len(searchText), toLowerCase(searchText),
                                        toLowerCase(propsItems[i].displayName)))
                /\ highlightedIndex # -1
                /\ ~OnlyOverlaps(propsItems[highlightedIndex + 1], searchText)

\* the scores the effect compared for the i-th item: of the display name, and of the
\* raw name when it differs (TreeView.tsx:573)
ComparedScores(i) ==
    IF propsItems[i].displayName # propsItems[i].rawName
    THEN {scores[i].display, scores[i].raw}
    ELSE {scores[i].display}

\* C23 as stated: an item is chosen as the match only if one of its scores is above
\* 0.3.
C23_MatchOnlyAboveThreshold ==
    (Searched /\ highlightedIndex # -1) =>
        \E sc \in ComparedScores(highlightedIndex + 1) : Gt(sc, Q(3, 10))

\* C23 amended: an item is chosen as the match only if one of its scores is at least
\* 0.3, and some item is chosen whenever some item has such a score: a score of
\* exactly 0.3 makes a match.
C23_MatchFromThreshold ==
    Searched =>
        /\ highlightedIndex # -1 =>
            \E sc \in ComparedScores(highlightedIndex + 1) : Geq(sc, Q(3, 10))
        /\ (\E i \in DOMAIN propsItems : \E sc \in ComparedScores(i) : Geq(sc, Q(3, 10)))
            => highlightedIndex # -1

\* the chosen item's score is 3 common characters over a length of 10, exactly 0.3
C23_Witness ==
    /\ Searched /\ highlightedIndex # -1
    /\ \A sc \in ComparedScores(highlightedIndex + 1) : sc = Q(3, 10)

\* the score of item i as an offset match: TreeView.tsx:426-431
OffsetMatchScore(i) ==
    IF IsOffsetQuery(searchText) /\ InRange(OffsetOf(searchText), propsItems[i].range)
    THEN OffsetScore(propsItems[i].range)
    ELSE Q(0, 1)

\* the score of item i as a name match, the higher of its two names: TreeView.tsx:436-449
NameMatchScore(i) ==
    MathMax(SimilarityScore(toLowerCase(searchText), toLowerCase(propsItems[i].displayName)),
            SimilarityScore(toLowerCase(searchText), toLowerCase(propsItems[i].rawName)))

\* C25: a node's search score is the maximum of its offset-match score and its
\* name-match score, also when the text parses as an offset outside the node's range
C25_ScoreIsMaxOfOffsetAndName ==
    Searched =>
        \A i \in DOMAIN propsItems :
            Eq(MathMax(scores[i].display, scores[i].raw),
               MathMax(OffsetMatchScore(i), NameMatchScore(i)))
\* C25 (amended): a text that is an offset is scored as an offset only, 0 outside
\* the range whatever the name; any other text is scored by the names only
C25_ScoreIsOffsetOrName ==
    Searched =>
        \A i \in DOMAIN propsItems :
            IF IsOffsetQuery(searchText)
            THEN /\ Eq(scores[i].display, OffsetMatchScore(i))
                 /\ Eq(scores[i].raw, OffsetMatchScore(i))
            ELSE Eq(MathMax(scores[i].display, scores[i].raw), NameMatchScore(i))

\* an offset outside the range of an item whose name matches the text: its score is 0
C25_Witness ==
    /\ Searched
    /\ IsOffsetQuery(searchText)
    /\ \E i \in DOMAIN propsItems :
          /\ ~InRange(OffsetOf(searchText), propsItems[i].range)
          /\ Gt(NameMatchScore(i), Q(0, 1))
          /\ Eq(scores[i].display, Q(0, 1))
          /\ Eq(scores[i].raw, Q(0, 1))

----------------------------------------------------------------------------
(* Claims about the cross-reference search.                                *)

\* the score fuzzy gave the k-th result of the list shown
ResultScore(k) ==
    FuzzyScore(propsItems[searchResults[k] + 1], searchQuery).score

\* the list shown is in descending order of score, and results of equal score are in
\* the order of the items
SortedTiesInOrder ==
    \A k \in 1..(Len(searchResults) - 1) :
        \/ ResultScore(k) > ResultScore(k + 1)
        \/ /\ ResultScore(k) = ResultScore(k + 1)
           /\ searchResults[k] < searchResults[k + 1]

\* C24: the search result list is sorted by descending score with ties in discovery
\* order, and it never holds more than 100 matches
C24_SortedAndCapped ==
    /\ SortedTiesInOrder
    /\ Len(searchResults) <= 100

----------------------------------------------------------------------------
(* Claims about the client and the worker together.                        *)

\* the operations that insist on a response kind
CheckedOps == {"load", "getSource", "printRich", "printPlain"}

\* C28: in the composed system no client operation fails with "unexpected response
\* kind": the message that settles the request of a load, getSource, printRich or
\* printPlain is of the operation's own kind or an Exception
C28_NoUnexpectedResponseKind ==
    \A i \in DOMAIN calls :
        /\ calls[i].status = "threw" => calls[i].result # <<"unexpected response kind">>
        /\ (calls[i].op \in CheckedOps /\ ~calls[i].hit /\ Settled(calls[i].msg)) =>
              promises[calls[i].msg].by.kind \in {ExpectedKind(calls[i].op), "exception"}

\* each of the four operations has been answered, one of them by an Exception
C28_Witness ==
    /\ \E i \in DOMAIN calls : calls[i].op = "load" /\ calls[i].status = "returned"
    /\ \E i \in DOMAIN calls :
          /\ calls[i].op \in {"printRich", "printPlain"}
          /\ calls[i].status = "returned" /\ ~calls[i].hit
    /\ \E i \in DOMAIN calls :
          /\ calls[i].op \in CheckedOps /\ calls[i].status = "threw"
          /\ promises[calls[i].msg].by.kind = "exception"

\* the ids of the messages handed to the channel
SentIds == {sent[k].id : k \in DOMAIN sent}

\* C29: the listener for a request's id is installed when the message is handed to
\* the channel, so the response is never missed: a posted request has its listener
\* until it is settled, and a delivered response to it has settled it
C29_ListenerInstalledBeforePost ==
    /\ \A id \in SentIds : id \in listeners \/ Settled(id)
    /\ \A k \in 1..cHead : posted[k].id \in SentIds => Settled(posted[k].id)

\* a response was delivered as soon as it was posted, and it settled its request
C29_Witness ==
    /\ cHead = Len(posted)
    /\ \E k \in 1..cHead :
          /\ posted[k].id \in SentIds
          /\ Settled(posted[k].id)
          /\ promises[posted[k].id].by = posted[k]

\* the requests that are not settled
Unsettled == {id \in DOMAIN promises : promises[id].state = "pending"}

\* the next inbound message is delivered and no installed listener is for its id
UnmatchedDelivery ==
    /\ cHead' = cHead + 1
    /\ posted[cHead + 1].id \notin listeners

\* C30: an inbound message whose id matches no pending request changes nothing, and
\* a settled request's listener is removed: the installed listeners are always the
\* unsettled requests
C30_ListenersAreUnsettledRequests ==
    /\ [](listeners = Unsettled)
    /\ [][UnmatchedDelivery =>
            UNCHANGED <<promises, listeners, calls, handles, booted>>]_vars

\* a message for an id that was never requested and a second response to a settled
\* request have been delivered, and the client still waits for another request
C30_Witness ==
    /\ \E k \in 1..cHead : posted[k].id \notin DOMAIN promises
    /\ \E j \in 1..cHead, k \in 1..cHead :
          /\ j < k /\ posted[j].id = posted[k].id
          /\ Settled(posted[k].id) /\ posted[k].id \notin listeners
    /\ Unsettled # {}

----------------------------------------------------------------------------
(* Claims about the application.                                           *)

\* the handles that carry a validation error
ErrorHandles == {h \in DOMAIN handles : handles[h].validateError # "null"}

\* the print calls
Prints == {i \in DOMAIN calls : calls[i].op \in {"printRich", "printPlain"}}

\* C26: whenever the loaded handle carries a validation error only the error panel is
\* shown, neither the navigator nor the text viewer, and no printRich or printPlain
\* is ever called on that handle
C26_ErrorPanelOnly ==
    /\ (loadedModule \in ErrorHandles /\ ~Crashed) => Shown = {"error-view"}
    /\ \A i \in Prints : calls[i].h \notin ErrorHandles

\* a module with a validation error is on the page after a module whose item the
\* viewer had printed, and the application's effects have run
C26_Witness ==
    /\ loadedModule \in ErrorHandles
    /\ Shown = {"error-view"}
    /\ effectsModule = loadedModule
    /\ \E i \in Prints : calls[i].status = "returned"

\* the print calls of the selected item on the loaded module
PrintsOfSelected ==
    {i \in Prints : calls[i].h = loadedModule /\ calls[i].range = ItemRange(appItem)}

\* the viewer's effect has run for the selected item and the viewer shows a body
ShowsSelected ==
    /\ Displaying
    /\ appItem # NoItem
    /\ effectFor = <<loadedModule, appItem>>

\* C27: once the viewer's effect has run for the selected item, the body it shows is
\* the result of a print of that item, whatever the order of the responses, and
\* no message that arrives later changes the body it shows
C27_ViewerShowsSelectedItem ==
    /\ [](ShowsSelected =>
            \E i \in PrintsOfSelected : calls[i].status = "returned" /\ Body = calls[i].result)
    /\ [][(ShowsSelected /\ cHead' = cHead + 1 /\ ~Crashed') => Body' = Body]_vars

\* item B was selected while the print of item A was awaiting its response, B's
\* response arrived before A's, both have arrived, and the viewer shows B's result
C27_Witness ==
    /\ ShowsSelected
    /\ \E a \in Prints, b \in Prints, ka \in 1..cHead, kb \in 1..cHead :
          /\ a < b /\ kb < ka
          /\ calls[a].range # calls[b].range
          /\ calls[a].status = "returned" /\ calls[b].status = "returned"
          /\ posted[ka].id = calls[a].msg /\ promises[calls[a].msg].by = posted[ka]
          /\ posted[kb].id = calls[b].msg /\ promises[calls[b].msg].by = posted[kb]
          /\ bodyState = b
          /\ Body # calls[a].result

\* the best of the scores the effect compared for the i-th item
BestScore(i) ==
    CHOOSE sc \in ComparedScores(i) : \A other \in ComparedScores(i) : Geq(sc, other)

\* C33: the highlighted item is an item of the sequence whose best score is at least
\* that of every item and reaches the threshold, every earlier item has a lower best
\* score, and nothing is highlighted when no score reaches the threshold
C33_HighlightIsEarliestMaximum ==
    Searched =>
        /\ highlightedIndex # -1 =>
              /\ highlightedIndex \in 0..(Len(propsItems) - 1)
              /\ Geq(BestScore(highlightedIndex + 1), Threshold)
              /\ \A i \in DOMAIN propsItems :
                    /\ Geq(BestScore(highlightedIndex + 1), BestScore(i))
                    /\ i < highlightedIndex + 1 =>
                          Gt(BestScore(highlightedIndex + 1), BestScore(i))
        /\ (\A i \in DOMAIN propsItems : ~Geq(BestScore(i), Threshold))
              => highlightedIndex = -1

\* a later item has the same best score as the highlighted one
C33_Witness ==
    /\ Searched /\ highlightedIndex # -1
    /\ \E i \in DOMAIN propsItems :
          /\ i > highlightedIndex + 1
          /\ BestScore(i) = BestScore(highlightedIndex + 1)

----------------------------------------------------------------------------
(* Claims about the worker's order and its table.                          *)

\* C31: the worker handles the requests in the order of their arrival, each to its
\* end before the next: after the ready message, the k-th message posted answers the
\* k-th request received, and nothing is posted for a request not yet handled
C31_RepliesInArrivalOrder ==
    workerUp =>
        /\ Len(posted) = wHead + 1
        /\ \A k \in 1..wHead : posted[k + 1].id = sent[k].id

\* three requests have arrived and been answered, one of them by an Exception
C31_Witness ==
    /\ wHead = 3 /\ Len(sent) = 3
    /\ \E k \in 1..3 : posted[k + 1].kind = "exception"
    /\ \E k \in 1..3 : posted[k + 1].kind = "construct"

\* the handler runs on a Construct request
HandlesConstruct == Handles /\ sent[wHead + 1].kind = "construct"

OthersKeepTable ==
    LET data == sent[wHead + 1] IN
    /\ data.kind \in LookupKinds => modules' = modules
    /\ data.kind = "destroy" =>
          /\ DOMAIN modules \ {data.moduleId} \subseteq DOMAIN modules'
          /\ DOMAIN modules' \subseteq DOMAIN modules
          /\ \A id \in DOMAIN modules' : modules'[id] = modules[id]

\* a Construct adds one entry and changes no other
AddsOneEntry ==
    /\ DOMAIN modules \subseteq DOMAIN modules'
    /\ Cardinality(DOMAIN modules' \ DOMAIN modules) = 1
    /\ \A id \in DOMAIN modules : modules'[id] = modules[id]

\* C37: lookups never change the table, a Construct adds one entry and changes no
\* existing entry, a Destroy removes at most the entry of its id and leaves the
\* others, and nothing but the handler changes the table
C37_ConstructAddsOneEntry ==
    [][/\ Handles => OthersKeepTable
       /\ HandlesConstruct => AddsOneEntry
       /\ ~Handles => modules' = modules]_vars

\* C37 (amended): as above, but a Construct adds one entry only when the engine's
\* constructor returns; when it throws the table is left as it was
C37_ConstructAddsAtMostOneEntry ==
    [][/\ Handles => OthersKeepTable
       /\ HandlesConstruct =>
             IF EngineNewThrows(sent[wHead + 1].source)
             THEN modules' = modules
             ELSE AddsOneEntry
       /\ ~Handles => modules' = modules]_vars

\* a Destroy has removed one of two entries, a lookup and a Construct whose
\* constructor threw have been handled, and the other entry is still there
C37_Witness ==
    /\ \E k \in 1..wHead : sent[k].kind = "destroy" /\ sent[k].moduleId < nextModuleId
    /\ \E k \in 1..wHead : sent[k].kind = "construct" /\ posted[k + 1].kind = "exception"
    /\ DOMAIN modules # {}

\* the handler runs on a getSource, printRich or printPlain request
HandlesLookup == Handles /\ sent[wHead + 1].kind \in LookupKinds

\* C35: while a handle is not finalized the table has an entry for its module id, and
\* the table has the entry of every getSource, printRich and printPlain request at
\* the time it is handled: none of these operations fails for an unknown handle,
\* whatever loads, prints and Destroys of other handles are interleaved
C35_ReachableHandleIsInTable ==
    /\ [](\A h \in DOMAIN handles :
             handles[h].state # "finalized" => handles[h].id \in DOMAIN modules)
    /\ [](\A i \in DOMAIN calls :
             (calls[i].op \in LookupKinds /\ calls[i].status = "threw") =>
                 calls[i].result # <<"TypeError">>)
    /\ [][HandlesLookup => sent[wHead + 1].moduleId \in DOMAIN modules]_vars

\* the Destroy of a finalized handle has been handled, and afterwards a request of
\* another handle, still live, was sent and answered in kind
C35_Witness ==
    \E d \in DOMAIN calls, i \in DOMAIN calls :
        /\ calls[d].op = "destroy" /\ calls[d].status = "returned"
        /\ calls[i].op \in LookupKinds /\ ~calls[i].hit
        /\ calls[i].msg > calls[d].msg
        /\ calls[i].h # calls[d].h
        /\ calls[i].status = "returned"
        /\ Live(calls[i].h)

----------------------------------------------------------------------------
(* Claims about termination.                                               *)

----------------------------------------------------------------------------
(* Claims about the debounced function.                                    *)

\* the step is a call of the debounced function
IsDebouncedCall ==
    /\ timeout' = DebounceMs
    /\ timeout = NoTimer \/ Len(burst'.args) = Len(burst.args) + 1

\* the invocations of f since the first call of the burst
InvokedInBurst == SubSeq(invoked, burst.before + 1, Len(invoked))

\* C39: a call with no timer pending invokes f at once with its arguments; a call
\* with a timer pending sets the timer anew and does not invoke f; the timer's
\* expiry invokes f with the arguments of the last call if and only if a call was
\* made while it was pending; so once the timer has expired f was invoked once for
\* a single call and twice, for the first and the last call, for a burst of more
C39_LeadingAndTrailingInvocation ==
    /\ [][/\ (IsDebouncedCall /\ timeout = NoTimer) =>
                /\ invoked' = Append(invoked, burst'.args[1])
                /\ Len(burst'.args) = 1
          /\ (IsDebouncedCall /\ timeout # NoTimer) =>
                /\ invoked' = invoked
                /\ timeout' = DebounceMs
          /\ (timeout = 0 /\ timeout' = NoTimer) =>
                invoked' = IF Len(burst.args) >= 2
                           THEN Append(invoked, burst.args[Len(burst.args)])
                           ELSE invoked]_vars
    /\ [](timeout = NoTimer /\ burst.args # <<>> =>
             InvokedInBurst = IF Len(burst.args) = 1 THEN <<burst.args[1]>>
                              ELSE <<burst.args[1], burst.args[Len(burst.args)]>>)

\* a burst of three calls with different first and last arguments has ended after a
\* single call
C39_Witness ==
    /\ timeout = NoTimer
    /\ Len(burst.args) = 3 /\ burst.args[1] # burst.args[3]
    /\ burst.before = 1

----------------------------------------------------------------------------
(* Claims about the payload server.                                        *)

\* C40: a retrieve of a key whose entry is not older than the timeout returns the
\* bytes stored under it, and a retrieve of a key whose entry is older returns 404
\* and not the payload
C40_RetrieveReturnsStoredBytes ==
    (httpResponse # <<>> /\ httpResponse.op = "retrieve") =>
        /\ httpResponse.entry = "live" =>
              httpResponse.status = 200 /\ httpResponse.body = httpResponse.data
        /\ httpResponse.entry = "expired" =>
              httpResponse.status = 404 /\ httpResponse.body # httpResponse.data

\* whatever the store holds, retrievePayload gets the 404 of the ServeMux
RetrieveIsNeverRouted ==
    (httpResponse # <<>> /\ httpResponse.op = "retrieve" /\ httpResponse.key \in Keys) =>
        httpResponse.status = 404 /\ httpResponse.body = <<"404 page not found">>

----------------------------------------------------------------------------
(* Claims about the selected item and offset.                              *)

\* the items of the list that contain the offset, by position
ItemsContaining(its, off) == {i \in DOMAIN its : ContainsOffset(its[i], off)}

\* the first of the smallest items of the list that contain the offset
SmallestContaining(its, off) ==
    LET c == ItemsContaining(its, off)
        size(i) == its[i].end - its[i].start
        i == CHOOSE x \in c : \A y \in c : size(x) < size(y) \/ (size(x) = size(y) /\ x <= y)
    IN NavItemAt(its, i - 1)

\* the effects run for another item or offset of the same items
SelectionEffects ==
    /\ navDeps' # navDeps
    /\ navDeps # <<>> /\ navDeps[3] = navRendered[3]

\* C38: once the effects have caught up, an item and an offset that are both selected
\* satisfy start <= offset < end, and an offset is selected without an item only if
\* no item contains it; the effects that find an offset outside the item set the
\* offset to null and leave the item, and the effects that find an offset and no
\* item set the item to the first of the smallest items that contain the offset
C38_OffsetWithinSelectedItem ==
    /\ [](Quiescent =>
            /\ (navItem # NoNavItem /\ navOffset # NoOffset) =>
                  /\ navItem.range.start <= navOffset
                  /\ navOffset < navItem.range.end
            /\ (navItem = NoNavItem /\ navOffset # NoOffset) =>
                  ItemsContaining(navItems, navOffset) = {})
    /\ [][SelectionEffects =>
            LET it == navRendered[1]
                off == navRendered[2]
                its == navRendered[3]
            IN /\ (it # NoNavItem /\ off # NoOffset
                     /\ ~(it.range.start <= off /\ off < it.range.end)) =>
                     navOffset' = NoOffset /\ navItem' = navItem
               /\ (it = NoNavItem /\ off # NoOffset) =>
                     /\ navOffset' = navOffset
                     /\ navItem' = IF ItemsContaining(its, off) = {} THEN navItem
                                   ELSE SmallestContaining(its, off)]_vars

====
